---------------------------- MODULE Spec2Model ----------------------------
(***************************************************************************)
(* Streaming gesture recognizer of Proyecto-Automata-IoT.                  *)
(*                                                                         *)
(* Two programs carry a copy of the detector loop:                         *)
(*   run_detector            (Codigo/BackEnd/Entrenamiento/Entrenamiento.py)*)
(*   run_integrated_detector (Codigo/BackEnd/Entrenamiento/Testing_Final.py)*)
(* Each keeps the module globals realtime_buffer and cooldown_counter and  *)
(* the local evaluation_counter.                                           *)
(*                                                                         *)
(* Real numbers are carried in fixed point: a real x is the integer        *)
(* x * SCALE, square roots are floor square roots.  Sample values are      *)
(* integers read from the text records of the serial transport.            *)
(***************************************************************************)
EXTENDS Integers, Sequences, FiniteSets, TLC

(***************************************************************************)
(* Program constants (Entrenamiento.py:14-24, Testing_Final.py:39-47).     *)
(* The four sizes are modelled at reduced scale; the source values are     *)
(* TEMPLATE_LENGTH = 80, DETECTION_WINDOW = 100, STEP_SIZE = 5 and         *)
(* COOLDOWN_SAMPLES = 40.                                                  *)
(***************************************************************************)
NUM_SENSOR_VALUES == 6
TEMPLATE_LENGTH == 4
DETECTION_WINDOW == 5
STEP_SIZE == 2
COOLDOWN_SAMPLES == 2
DTW_THRESHOLD == 150
SIMILARITY_MARGIN == 30
\* MIN_ACTIVITY = 0.08 as the fraction MIN_ACTIVITY_NUM / MIN_ACTIVITY_DEN
MIN_ACTIVITY_NUM == 8
MIN_ACTIVITY_DEN == 100

\* fixed-point unit: the real x is represented by x * SCALE
SCALE == 100
\* float('inf')
INF == 1073741824

Max(a, b) == IF a >= b THEN a ELSE b
Min(a, b) == IF a <= b THEN a ELSE b

\* division rounding toward zero
TruncDiv(a, b) == IF a >= 0 THEN a \div b ELSE -((-a) \div b)

RECURSIVE ISqrtIter(_, _, _)
ISqrtIter(n, lo, hi) ==
    IF hi - lo <= 1 THEN lo
    ELSE LET mid == (lo + hi) \div 2
         IN  IF mid * mid <= n THEN ISqrtIter(n, mid, hi) ELSE ISqrtIter(n, lo, mid)

\* floor of the square root
ISqrt(n) == ISqrtIter(n, 0, Min(n + 1, 46341))

\* a function over 1..n as the tuple of its values
List(f) == f \o <<>>

RECURSIVE SumFrom(_, _)
SumFrom(s, i) == IF i > Len(s) THEN 0 ELSE s[i] + SumFrom(s, i + 1)

SumSeq(s) == SumFrom(s, 1)

(***************************************************************************)
(* Text records of the transport: a line is a sequence of characters.      *)
(***************************************************************************)
Digits == <<"0", "1", "2", "3", "4", "5", "6", "7", "8", "9">>

IsDigit(c) == \E d \in 1..10 : Digits[d] = c

DigitVal(c) == (CHOOSE d \in 1..10 : Digits[d] = c) - 1

RECURSIVE LStrip(_)
LStrip(s) == IF s # <<>> /\ Head(s) = " " THEN LStrip(Tail(s)) ELSE s

RECURSIVE RStrip(_)
RStrip(s) ==
    IF s # <<>> /\ s[Len(s)] = " " THEN RStrip(SubSeq(s, 1, Len(s) - 1)) ELSE s

\* str.strip()
Strip(s) == RStrip(LStrip(s))

RECURSIVE SplitFrom(_, _)
SplitFrom(s, cur) ==
    IF s = <<>> THEN <<cur>>
    ELSE IF Head(s) = "," THEN <<cur>> \o SplitFrom(Tail(s), <<>>)
    ELSE SplitFrom(Tail(s), Append(cur, Head(s)))

\* line.split(',')
Split(s) == SplitFrom(s, <<>>)

RECURSIVE DigitsValue(_, _)
DigitsValue(s, acc) ==
    IF s = <<>> THEN acc ELSE DigitsValue(Tail(s), 10 * acc + DigitVal(Head(s)))

Unsigned(t) == IF t # <<>> /\ Head(t) \in {"-", "+"} THEN Tail(t) ELSE t

\* the spelling of infinity float() accepts
IsInfWord(u) == u = <<"i", "n", "f">>

\* float(p) raises ValueError unless p, stripped, is a signed decimal numeral
\* or a signed infinity (of the records fed here; exponents, fractions and
\* nan do not occur in them)
IsFloat(p) ==
    LET t == Strip(p)
        u == Unsigned(t)
    IN  \/ u # <<>> /\ \A i \in 1..Len(u) : IsDigit(u[i])
        \/ IsInfWord(u)

\* float(p); float('inf') is INF
Float(p) ==
    LET t == Strip(p)
        u == Unsigned(t)
        v == IF IsInfWord(u) THEN INF ELSE DigitsValue(u, 0)
    IN  IF t # <<>> /\ Head(t) = "-" THEN -v ELSE v

(***************************************************************************)
(* Python list slices.                                                     *)
(***************************************************************************)
\* lst[-n:]  (n >= 0; lst[-0:] is the whole list)
PySliceLast(lst, n) ==
    IF n = 0 \/ n >= Len(lst) THEN lst ELSE SubSeq(lst, Len(lst) - n + 1, Len(lst))

(***************************************************************************)
(* Window buffer: append, then evict.                                      *)
(***************************************************************************)
\* eviction at the wrong end: keeps the oldest DETECTION_WINDOW samples
PushSliceHead(buf, sample) ==
    LET b == Append(buf, sample)
    IN  IF Len(b) > DETECTION_WINDOW THEN SubSeq(b, 1, DETECTION_WINDOW) ELSE b

\* eviction one sample late
PushSliceLate(buf, sample) ==
    LET b == Append(buf, sample)
    IN  IF Len(b) > DETECTION_WINDOW + 1 THEN PySliceLast(b, DETECTION_WINDOW) ELSE b

\* run_detector: realtime_buffer = realtime_buffer[-DETECTION_WINDOW:]
PushSlice(buf, sample) ==
    LET b == Append(buf, sample)
    IN  IF Len(b) > DETECTION_WINDOW THEN PySliceLast(b, DETECTION_WINDOW) ELSE b

\* run_integrated_detector: realtime_buffer.pop(0)
PushPop(buf, sample) ==
    LET b == Append(buf, sample)
    IN  IF Len(b) > DETECTION_WINDOW THEN Tail(b) ELSE b

(***************************************************************************)
(* Signal pipeline.  A window is a sequence of samples, a sample a         *)
(* 6-tuple of integers; a feature matrix is a sequence of 8-tuples in      *)
(* fixed point.                                                            *)
(***************************************************************************)
Column(m, c) == List([i \in 1..Len(m) |-> m[i][c]])

SumSq(s) == SumSeq(List([i \in 1..Len(s) |-> s[i] * s[i]]))

\* n * sum(x^2) - sum(x)^2  =  n^2 * (population variance)
Spread(col) == Len(col) * SumSq(col) - SumSeq(col) * SumSeq(col)

\* a value that is not finite
IsInf(x) == x = INF \/ x = -INF

\* Series.std() of a column holding an infinity is NaN
StdIsNaN(col) == \E i \in 1..Len(col) : IsInf(col[i])

\* pandas Series.std() (ddof = 1) of one column, in fixed point
ColumnStd(col) ==
    ISqrt((SCALE * SCALE * Spread(col)) \div (Len(col) * (Len(col) - 1)))

\* the columns whose std() is a number: Series.mean() skips the NaN ones
StdColumns(win) ==
    {c \in 1..NUM_SENSOR_VALUES : ~StdIsNaN(Column(win, c))}

\* recent_data.std().sum(): the sum that mean() divides by the number of
\* columns counted
ActivitySum(win) ==
    SumSeq(List([c \in 1..NUM_SENSOR_VALUES |->
                    IF StdIsNaN(Column(win, c)) THEN 0
                    ELSE ColumnStd(Column(win, c))]))

\* the activity gate left out
NeverBelowMinActivity(win) == FALSE

\* current_activity < MIN_ACTIVITY; with fewer than two rows, or with no
\* column counted, the mean is NaN and the comparison is False
BelowMinActivity(win) ==
    /\ Len(win) >= 2
    /\ StdColumns(win) # {}
    /\ MIN_ACTIVITY_DEN * ActivitySum(win)
            < MIN_ACTIVITY_NUM * Cardinality(StdColumns(win)) * SCALE

\* StandardScaler.fit_transform raises ValueError on an infinite input
\* (the magnitudes of a row holding an infinity are infinite too)
ScalerRaises(data) ==
    \E i \in 1..Len(data) : \E c \in 1..NUM_SENSOR_VALUES : IsInf(data[i][c])

Magnitude(x, y, z) == ISqrt(SCALE * SCALE * (x * x + y * y + z * z))

extract_temporal_features(data) ==
    List([i \in 1..Len(data) |->
            [c \in 1..NUM_SENSOR_VALUES |-> SCALE * data[i][c]]
            \o << Magnitude(data[i][1], data[i][2], data[i][3]),
                  Magnitude(data[i][4], data[i][5], data[i][6]) >>])

\* StandardScaler().fit_transform of one column: zero mean, unit variance
\* (ddof = 0); a constant column is scaled by 1 and becomes all zeros
ScaleColumn(col, n, sum, d) ==
    List([i \in 1..n |->
            IF d = 0 THEN 0 ELSE TruncDiv(SCALE * (n * col[i] - sum), d)])

NormalizeColumn(col) == ScaleColumn(col, Len(col), SumSeq(col), ISqrt(Spread(col)))

Transpose(cols, n) ==
    List([i \in 1..n |-> List([c \in 1..Len(cols) |-> cols[c][i]])])

normalize_sequence(sequence) ==
    IF sequence = <<>> THEN <<>>
    ELSE Transpose(List([c \in 1..Len(sequence[1]) |->
                                NormalizeColumn(Column(sequence, c))]),
                   Len(sequence))

\* a cost that is never zero
EuclideanPlusOne(u, v) ==
    1 + ISqrt(SumSeq(List([c \in 1..Len(u) |-> (u[c] - v[c]) * (u[c] - v[c])])))

\* scipy euclidean(u, v)
Euclidean(u, v) ==
    ISqrt(SumSeq(List([c \in 1..Len(u) |-> (u[c] - v[c]) * (u[c] - v[c])])))

AddInf(a, b) == IF a = INF \/ b = INF THEN INF ELSE a + b

\* the recurrence without dtw_matrix[i, j-1]
RECURSIVE DtwRowNoLeft(_, _, _, _, _, _)
DtwRowNoLeft(seq1, seq2, i, prev0, prev, acc) ==
    LET j == Len(acc) + 1
    IN  IF j > Len(seq2) THEN acc
        ELSE LET up   == prev[j]
                 diag == IF j = 1 THEN prev0 ELSE prev[j - 1]
                 cost == Euclidean(seq1[i], seq2[j])
             IN  DtwRowNoLeft(seq1, seq2, i, prev0, prev,
                              Append(acc, AddInf(cost, Min(up, diag))))

\* the recurrence without dtw_matrix[i-1, j-1] past the first cell
RECURSIVE DtwRowNoDiag(_, _, _, _, _, _)
DtwRowNoDiag(seq1, seq2, i, prev0, prev, acc) ==
    LET j == Len(acc) + 1
    IN  IF j > Len(seq2) THEN acc
        ELSE LET up   == IF i = 1 /\ j = 1 THEN prev0 ELSE prev[j]
                 left == IF j = 1 THEN INF ELSE acc[j - 1]
                 cost == Euclidean(seq1[i], seq2[j])
             IN  DtwRowNoDiag(seq1, seq2, i, prev0, prev,
                              Append(acc, AddInf(cost, Min(up, left))))

\* row i of dtw_matrix, columns 1..m, given row i-1 (columns 0..m as
\* prev0 and prev); built left to right
RECURSIVE DtwRow(_, _, _, _, _, _)
DtwRow(seq1, seq2, i, prev0, prev, acc) ==
    LET j == Len(acc) + 1
    IN  IF j > Len(seq2) THEN acc
        ELSE LET up   == prev[j]
                 left == IF j = 1 THEN INF ELSE acc[j - 1]
                 diag == IF j = 1 THEN prev0 ELSE prev[j - 1]
                 cost == Euclidean(seq1[i], seq2[j])
             IN  DtwRow(seq1, seq2, i, prev0, prev,
                        Append(acc, AddInf(cost, Min(up, Min(left, diag)))))

RECURSIVE DtwRows(_, _, _, _, _)
DtwRows(seq1, seq2, i, prev0, prev) ==
    IF i > Len(seq1) THEN <<prev0, prev>>
    ELSE DtwRows(seq1, seq2, i + 1, INF, DtwRow(seq1, seq2, i, prev0, prev, <<>>))

\* dtw_matrix[n, m]
dtw_distance(seq1, seq2) ==
    LET m == Len(seq2)
        last == DtwRows(seq1, seq2, 1, 0, List([j \in 1..m |-> INF]))
    IN  IF m = 0 THEN last[1] ELSE last[2][m]

(***************************************************************************)
(* Per-gesture matching and the decision (run_detector).                   *)
(* all_gestures is a sequence of gesture records in dictionary order:      *)
(* [name, templates, template_length].                                     *)
(***************************************************************************)
\* the distance to the first template instead of the smallest
FirstTemplateDistance(current, templates, min_distance) ==
    IF templates = <<>> THEN min_distance
    ELSE dtw_distance(current, Head(templates))

\* the inner loop over a gesture's templates: min_distance
RECURSIVE MinTemplateDistance(_, _, _)
MinTemplateDistance(current, templates, min_distance) ==
    IF templates = <<>> THEN min_distance
    ELSE LET distance == dtw_distance(current, Head(templates))
         IN  MinTemplateDistance(current, Tail(templates),
                                 IF distance < min_distance THEN distance
                                 ELSE min_distance)

\* gesture_distances, as the sequence of values in dictionary order
GestureDistances(current, gestures) ==
    List([g \in 1..Len(gestures) |->
            MinTemplateDistance(current, gestures[g].templates, INF)])

\* min(gesture_distances, key=gesture_distances.get): the first key, in
\* dictionary order, whose value is minimal
BestIndex(dists) ==
    CHOOSE g \in 1..Len(dists) :
        /\ \A h \in 1..Len(dists) : dists[g] <= dists[h]
        /\ \A h \in 1..(g - 1) : dists[h] > dists[g]

\* sorted(gesture_distances.values())[1] if len(gesture_distances) > 1
\* else float('inf')
SecondBestDistance(dists) ==
    IF Len(dists) > 1 THEN SortSeq(dists, LAMBDA a, b : a < b)[2] ELSE INF

\* the margin compared with >= instead of >
IsDistinctiveOrEqual(second_best_distance, best_distance) ==
    IF second_best_distance = INF THEN TRUE
    ELSE (second_best_distance - best_distance) >= SIMILARITY_MARGIN * SCALE

\* (second_best_distance - best_distance) > SIMILARITY_MARGIN
IsDistinctive(second_best_distance, best_distance) ==
    IF second_best_distance = INF THEN TRUE
    ELSE (second_best_distance - best_distance) > SIMILARITY_MARGIN * SCALE

\* the threshold compared with < instead of <=
StrictlyWithinThreshold(best_distance, threshold) ==
    best_distance < threshold * SCALE

\* best_distance <= DTW_THRESHOLD
WithinThreshold(best_distance, threshold) == best_distance <= threshold * SCALE

\* the margin check left out
AcceptsAnyMatch(is_distinctive, num_gestures) == TRUE

\* is_distinctive or len(all_gestures) == 1
Accepts(is_distinctive, num_gestures) == is_distinctive \/ num_gestures = 1

\* the distance not divided by the threshold
SimilarityScoreUndivided(best_distance, threshold) ==
    Max(0, 100 * SCALE - best_distance)

\* max(0, 100 - (best_distance / DTW_THRESHOLD * 100)), in fixed point
SimilarityScore(best_distance, threshold) ==
    Max(0, 100 * SCALE - (best_distance * 100) \div threshold)

NumTemplates(gestures) ==
    SumSeq(List([g \in 1..Len(gestures) |-> Len(gestures[g].templates)]))

\* what a pass did to the peripherals: the figure handed to the OLED, the
\* melody handed to the buzzer, whether apagar_sistema was started
NoAction == [oled |-> "none", buzzer |-> "none", shutdown |-> FALSE]

\* Testing_Final.py: GESTURE_ACTIONS (oled_mode is 'ascii' in every entry)
GESTURE_ACTIONS ==
    [name \in {"Lumos_Nox", "Wingardium_Leviosa", "Ascendio", "Descendio",
               "Stupefy", "Reparo", "Expelliarmus", "skull"} |->
        CASE name = "Lumos_Nox" ->
                 [oled_mode |-> "ascii", oled_art |-> "bombilla", buzzer |-> "lumos"]
          [] name = "Wingardium_Leviosa" ->
                 [oled_mode |-> "ascii", oled_art |-> "pluma", buzzer |-> "levitation"]
          [] name = "Ascendio" ->
                 [oled_mode |-> "ascii", oled_art |-> "flecha_arriba", buzzer |-> "check"]
          [] name = "Descendio" ->
                 [oled_mode |-> "ascii", oled_art |-> "flecha_abajo", buzzer |-> "check"]
          [] name = "Stupefy" ->
                 [oled_mode |-> "ascii", oled_art |-> "rayo", buzzer |-> "stupefy"]
          [] name = "Reparo" ->
                 [oled_mode |-> "ascii", oled_art |-> "herramienta", buzzer |-> "check"]
          [] name = "Expelliarmus" ->
                 [oled_mode |-> "ascii", oled_art |-> "varita_rota",
                  buzzer |-> "expelliarmus"]
          [] name = "skull" ->
                 [oled_mode |-> "ascii", oled_art |-> "calavera", buzzer |-> "skull"]]

\* AnimatedOLED.ascii_art: the figures that can be drawn
ascii_art == {"bombilla", "pluma", "flecha_arriba", "flecha_abajo", "rayo",
              "herramienta", "varita_rota", "calavera", "check", "error"}

\* BuzzerController._obtener_melodias: the melodies that can be played
melodias == {"check", "error", "skull", "lumos", "levitation", "stupefy",
             "expelliarmus"}

\* every detection starts the shutdown
IsAnyGesture(gesture_name) == TRUE

\* if gesture_name == 'skull': the thread of apagar_sistema is started
IsShutdownGesture(gesture_name) == gesture_name = "skull"

\* a gesture without an entry handled like 'Reparo'
EjecutarAccionDefault(gesture_name) ==
    LET action == IF gesture_name \in DOMAIN GESTURE_ACTIONS
                  THEN GESTURE_ACTIONS[gesture_name]
                  ELSE GESTURE_ACTIONS["Reparo"]
    IN  [oled |-> action.oled_art, buzzer |-> action.buzzer,
         shutdown |-> IsShutdownGesture(gesture_name)]

\* ejecutar_accion_gesto: nothing for a name without an entry; otherwise
\* mostrar_ascii when the figure exists, tocar_reaccion in a thread of its
\* own, which plays when the melody exists, and apagar_sistema for 'skull'
ejecutar_accion_gesto(gesture_name) ==
    IF gesture_name \notin DOMAIN GESTURE_ACTIONS THEN NoAction
    ELSE LET action == GESTURE_ACTIONS[gesture_name]
         IN  [oled |-> IF action.oled_mode = "ascii" /\ action.oled_art \in ascii_art
                       THEN action.oled_art ELSE "none",
              buzzer |-> IF action.buzzer \in melodias THEN action.buzzer
                         ELSE "none",
              shutdown |-> IsShutdownGesture(gesture_name)]

\* what one pass of the loop body did: the branch taken (kind), whether the
\* buffer evicted, whether the activity gate ran and on which window, the
\* number of dtw_distance calls, the gesture of the detection reported
\* ("none" if none), the distances computed and the similarity score
Observation(kind, evicted, window, dtw, event, dists, best, score) ==
    [kind |-> kind, evicted |-> evicted, gate |-> TRUE, window |-> window,
     dtw |-> dtw, event |-> event, dists |-> dists, best |-> best,
     score |-> score, gap |-> -1, after |-> -1, action |-> NoAction]

NoEvaluation(kind, evicted) ==
    [kind |-> kind, evicted |-> evicted, gate |-> FALSE, window |-> <<>>,
     dtw |-> 0, event |-> "none", dists |-> <<>>, best |-> -1,
     score |-> -1, gap |-> -1, after |-> -1, action |-> NoAction]

\* result of a pass: the new realtime_buffer, cooldown_counter,
\* evaluation_counter and the observation
Pass(buf, cd, ec, obs) == [buf |-> buf, cd |-> cd, ec |-> ec, obs |-> obs]

\* a record other than one of NUM_SENSOR_VALUES numbers: nothing changes
Discard(buf, cd, ec, kind) == Pass(buf, cd, ec, NoEvaluation(kind, FALSE))

\* the field count tested with >= instead of ==
AtLeastArity(parts) == Len(parts) >= NUM_SENSOR_VALUES

\* len(parts) == NUM_SENSOR_VALUES
HasArity(parts) == Len(parts) = NUM_SENSOR_VALUES

\* the sample of a cooldown pass not appended
CooldownSkipsAppend(buf, pushed) == buf

\* the append and the eviction come before the cooldown test: the buffer
\* of a cooldown pass is the updated one
CooldownBuffer(buf, pushed) == pushed

\* the counter left as it is
KeepCooldown(cd) == cd

\* cooldown_counter -= 1
DecrementCooldown(cd) == cd - 1

\* the buffer length not tested
ShouldEvaluateShort(ec, buf, tl) == ec >= STEP_SIZE

\* the step tested with > instead of >=
ShouldEvaluateLate(ec, buf, tl) == ec > STEP_SIZE /\ Len(buf) >= tl

\* evaluation_counter >= STEP_SIZE and len(realtime_buffer) >= template_length
ShouldEvaluate(ec, buf, tl) == ec >= STEP_SIZE /\ Len(buf) >= tl

\* a cooldown one sample longer
DetectionLongCooldown(buf, obs) == Pass(<<>>, COOLDOWN_SAMPLES + 1, 0, obs)

\* the buffer kept on a detection
DetectionKeepsBuffer(buf, obs) == Pass(buf, COOLDOWN_SAMPLES, 0, obs)

\* cooldown_counter = COOLDOWN_SAMPLES; realtime_buffer = []
\* (evaluation_counter is 0 since the evaluation began)
Detection(buf, obs) == Pass(<<>>, COOLDOWN_SAMPLES, 0, obs)

\* an evaluation that leaves evaluation_counter at STEP_SIZE
NoDetectionKeepsCounter(buf, cd, obs) == Pass(buf, cd, STEP_SIZE, obs)

\* an evaluation that detects nothing: evaluation_counter = 0, the rest is kept
NoDetection(buf, cd, obs) == Pass(buf, cd, 0, obs)

\* an exception raised in the evaluation, after evaluation_counter = 0:
\* nothing else was assigned when it left the try block
EvaluationRaises(buf, cd, obs) == Pass(buf, cd, 0, obs)

\* Entrenamiento.py lines 331-409: the evaluation of the current window
DetectorEvaluate(buf, cd, evicted, gestures, tl) ==
    LET window == PySliceLast(buf, tl)
    IN  IF BelowMinActivity(window)
        THEN NoDetection(buf, cd, Observation("inactive", evicted, window, 0,
                                              "none", <<>>, -1, -1))
        ELSE IF ScalerRaises(window)
        THEN EvaluationRaises(buf, cd, Observation("evalerror", evicted, window,
                                                   0, "none", <<>>, -1, -1))
        ELSE
        LET current_normalized == normalize_sequence(extract_temporal_features(window))
            gesture_distances == GestureDistances(current_normalized, gestures)
            best == BestIndex(gesture_distances)
            best_distance == gesture_distances[best]
            second_best_distance == SecondBestDistance(gesture_distances)
            n == NumTemplates(gestures)
        IN  IF WithinThreshold(best_distance, DTW_THRESHOLD)
            THEN IF Accepts(IsDistinctive(second_best_distance, best_distance),
                            Len(gestures))
                 THEN Detection(buf,
                          Observation("detected", evicted, window, n,
                                      gestures[best].name, gesture_distances,
                                      best_distance,
                                      SimilarityScore(best_distance, DTW_THRESHOLD)))
                 ELSE NoDetection(buf, cd,
                          Observation("ambiguous", evicted, window, n, "none",
                                      gesture_distances, best_distance, -1))
            ELSE NoDetection(buf, cd,
                     Observation("nomatch", evicted, window, n, "none",
                                 gesture_distances, best_distance, -1))

\* Entrenamiento.py lines 311-412: one record read from the transport
DetectorPass(line, buf, cd, ec, gestures, tl) ==
    LET parts == Split(Strip(line))
    IN  IF ~HasArity(parts)
        THEN Discard(buf, cd, ec, "arity")
        ELSE IF \E i \in 1..Len(parts) : ~IsFloat(Strip(parts[i]))
        THEN Discard(buf, cd, ec, "valueerror")
        ELSE
        LET sensor_values == List([i \in 1..Len(parts) |-> Float(Strip(parts[i]))])
            pushed == PushSlice(buf, sensor_values)
            evicted == Len(buf) + 1 > DETECTION_WINDOW
        IN  IF cd > 0
            THEN Pass(CooldownBuffer(buf, pushed), DecrementCooldown(cd), ec,
                      NoEvaluation("cooldown", evicted))
            ELSE IF ShouldEvaluate(ec + 1, pushed, tl)
            THEN DetectorEvaluate(pushed, cd, evicted, gestures, tl)
            ELSE Pass(pushed, cd, ec + 1, NoEvaluation("wait", evicted))

(***************************************************************************)
(* The integrated detector (Testing_Final.py).                             *)
(***************************************************************************)
\* Testing_Final.py: DTW_THRESHOLD = 190.0
DTW_THRESHOLD_INTEGRATED == 190

\* the flat loop over every template of every gesture: [min_dist, best_name]
RECURSIVE FlatBestTemplates(_, _, _, _)
FlatBestTemplates(curr_seq, name, templates, acc) ==
    IF templates = <<>> THEN acc
    ELSE LET d == dtw_distance(curr_seq, Head(templates))
         IN  FlatBestTemplates(curr_seq, name, Tail(templates),
                               IF d < acc.min_dist
                               THEN [min_dist |-> d, best_name |-> name]
                               ELSE acc)

RECURSIVE FlatBest(_, _, _)
FlatBest(curr_seq, gestures, acc) ==
    IF gestures = <<>> THEN acc
    ELSE FlatBest(curr_seq, Tail(gestures),
                  FlatBestTemplates(curr_seq, Head(gestures).name,
                                    Head(gestures).templates, acc))

\* Testing_Final.py lines 563-590: the evaluation of the current window
IntegratedEvaluate(buf, cd, evicted, gestures, tl) ==
    LET window == PySliceLast(buf, tl)
    IN  IF BelowMinActivity(window)
        THEN NoDetection(buf, cd, Observation("inactive", evicted, window, 0,
                                              "none", <<>>, -1, -1))
        ELSE IF ScalerRaises(window)
        THEN EvaluationRaises(buf, cd, Observation("evalerror", evicted, window,
                                                   0, "none", <<>>, -1, -1))
        ELSE
        LET curr_seq == normalize_sequence(extract_temporal_features(window))
            found == FlatBest(curr_seq, gestures,
                              [min_dist |-> INF, best_name |-> "None"])
            n == NumTemplates(gestures)
        IN  IF WithinThreshold(found.min_dist, DTW_THRESHOLD_INTEGRATED)
            THEN Detection(buf,
                     [Observation("detected", evicted, window, n, found.best_name,
                                  <<>>, found.min_dist,
                                  SimilarityScore(found.min_dist,
                                                  DTW_THRESHOLD_INTEGRATED))
                         EXCEPT !.action = ejecutar_accion_gesto(found.best_name)])
            ELSE NoDetection(buf, cd,
                     Observation("nomatch", evicted, window, n, "none", <<>>,
                                 found.min_dist, -1))

\* Testing_Final.py lines 549-593: one record read from the transport
IntegratedPass(line, buf, cd, ec, gestures, tl) ==
    LET parts == Split(Strip(line))
    IN  IF ~HasArity(parts)
        THEN Discard(buf, cd, ec, "arity")
        ELSE IF \E i \in 1..Len(parts) : ~IsFloat(parts[i])
        THEN Discard(buf, cd, ec, "valueerror")
        ELSE
        LET vals == List([i \in 1..Len(parts) |-> Float(parts[i])])
            pushed == PushPop(buf, vals)
            evicted == Len(buf) + 1 > DETECTION_WINDOW
        IN  IF cd > 0
            THEN Pass(CooldownBuffer(buf, pushed), DecrementCooldown(cd), ec,
                      NoEvaluation("cooldown", evicted))
            ELSE IF ShouldEvaluate(ec + 1, pushed, tl)
            THEN IntegratedEvaluate(pushed, cd, evicted, gestures, tl)
            ELSE Pass(pushed, cd, ec + 1, NoEvaluation("wait", evicted))

(***************************************************************************)
(* Inputs: the records the transport may deliver and the gesture files the *)
(* template store may hold.                                                *)
(***************************************************************************)
RECURSIVE JoinFields(_)
JoinFields(fields) ==
    IF Len(fields) = 1 THEN fields[1]
    ELSE fields[1] \o <<",">> \o JoinFields(Tail(fields))

Zero == <<"0">>

\* well-formed records: at rest; a turn about x with an acceleration along z
LineRest == JoinFields(<<Zero, Zero, Zero, Zero, Zero, Zero>>)
LineMove == JoinFields(<<(<<"1">>), Zero, Zero, Zero, Zero, (<<" ", "2">>)>>) \o <<" ">>

ValidLines == {LineRest, LineMove}

\* malformed records: five fields, seven fields, a non-numeric field, an
\* empty field, an empty line
LineShort == JoinFields(<<Zero, Zero, Zero, Zero, Zero>>)
LineLong  == JoinFields(<<Zero, Zero, Zero, Zero, Zero, Zero, Zero>>)
LineText  == JoinFields(<<Zero, Zero, (<<"x">>), Zero, Zero, Zero>>)
LineHole  == JoinFields(<<Zero, Zero, <<>>, Zero, Zero, Zero>>)
LineEmpty == <<>>

MalformedLines == {LineShort, LineLong, LineText, LineHole, LineEmpty}

Lines == ValidLines \cup MalformedLines

\* a record of six fields float() accepts, the first of them infinite
LineInf == JoinFields(<<(<<"i", "n", "f">>), Zero, Zero, Zero, Zero, Zero>>)

FaultLines == {LineMove, LineInf, LineText}

NUM_FEATURES == NUM_SENSOR_VALUES + 2

\* a template of TEMPLATE_LENGTH rows, zero but for one column, which
\* holds values (its last value repeated if TEMPLATE_LENGTH is larger)
ColumnTemplate(col, values) ==
    List([i \in 1..TEMPLATE_LENGTH |->
            List([c \in 1..NUM_FEATURES |->
                    IF c = col THEN values[Min(i, Len(values))] ELSE 0])])

\* the record train_model writes (Entrenamiento.py lines 227-235)
Gesture(name, templates) ==
    [name |-> name, templates |-> templates, template_length |-> TEMPLATE_LENGTH]

\* one gesture whose distance to the live windows lies about 150
StoreNear150 ==
    << Gesture("Lumos_Nox", <<ColumnTemplate(1, <<742, 2742, 4742, 6742>>)>>) >>
\* one gesture whose distance to the live windows lies about 190
StoreNear190 ==
    << Gesture("skull", <<ColumnTemplate(1, <<1747, 3747, 5747, 7747>>)>>) >>
\* two gestures whose distances lie about 30 apart, the second with two variants
StorePair ==
    << Gesture("Lumos_Nox", <<ColumnTemplate(1, <<750, 1750, 2750, 3750>>)>>),
       Gesture("skull", <<ColumnTemplate(6, <<4500, 4500, 4500, 4500>>),
                          ColumnTemplate(6, <<4504, 3504, 2504, 1504>>)>>) >>
\* two gestures with the same template, the first one trained under a name
\* that GESTURE_ACTIONS does not hold
StoreTie ==
    << Gesture("Alohomora", <<ColumnTemplate(1, <<750, 1750, 2750, 3750>>)>>),
       Gesture("Descendio", <<ColumnTemplate(1, <<750, 1750, 2750, 3750>>)>>) >>

\* the gestures found on disk (MODELS_DIR), in os.listdir order
Disks == {<<>>, StoreNear150, StoreNear190, StorePair, StoreTie}

\* gesture files trained under two values of TEMPLATE_LENGTH: the second
\* gesture's template is one row shorter
StoreMismatch ==
    << Gesture("Reparo", <<ColumnTemplate(1, <<750, 1750, 2750, 3750>>)>>),
       [name |-> "Stupefy",
        templates |-> <<SubSeq(ColumnTemplate(6, <<4500, 3500, 2500, 1500>>),
                               1, TEMPLATE_LENGTH - 1)>>,
        template_length |-> TEMPLATE_LENGTH - 1] >>

FaultDisks == {<<>>, StoreNear150, StoreMismatch}

\* target_gestures: None, or a list of names
AllGestures == [all |-> TRUE, names |-> <<>>]
Only(names) == [all |-> FALSE, names |-> names]

Targets == {AllGestures, Only(<<"skull", "Lumos_Nox">>), Only(<<"Accio">>)}

\* load_gesture(name) over the files of disk: the indices holding name
FilesNamed(disk, name) == {g \in 1..Len(disk) : disk[g].name = name}

\* a name without a file kept as a gesture without templates
RECURSIVE LoadTargetsKeepMissing(_, _)
LoadTargetsKeepMissing(disk, names) ==
    IF names = <<>> THEN <<>>
    ELSE LET found == FilesNamed(disk, Head(names))
         IN  (IF found = {} THEN <<Gesture(Head(names), <<>>)>>
              ELSE <<disk[CHOOSE g \in found : TRUE]>>)
             \o LoadTargetsKeepMissing(disk, Tail(names))

\* the loop over target_gestures (Entrenamiento.py lines 278-284)
RECURSIVE LoadTargets(_, _)
LoadTargets(disk, names) ==
    IF names = <<>> THEN <<>>
    ELSE LET found == FilesNamed(disk, Head(names))
         IN  (IF found = {} THEN <<>> ELSE <<disk[CHOOSE g \in found : TRUE]>>)
             \o LoadTargets(disk, Tail(names))

\* Entrenamiento.py lines 271-289
LoadGestures(disk, target) ==
    IF target.all THEN disk ELSE LoadTargets(disk, target.names)

(***************************************************************************)
(* State.                                                                  *)
(***************************************************************************)
VARIABLES
    program,             \* which of the two programs this process runs
    pc,                  \* "idle": the detector function is not running; "loop"
    ser,                 \* the serial handle of the current or the most
                         \* recent call: "none" (not bound), "open", "closed"
    closes,              \* number of ser.close() calls made by that call
    all_gestures,        \* local: the loaded gestures, in dictionary order
    template_length,     \* local: template_length of the first loaded gesture
    realtime_buffer,     \* module global
    cooldown_counter,    \* module global
    evaluation_counter,  \* local of the detector function
    last,                \* observation of the last pass of the loop body
    since_eval,          \* samples accepted since the last evaluation of this
                         \* run that detected nothing; -1 if there is none
    since_det,           \* samples accepted since the last detection of this
                         \* run, up to the first evaluation after it; -1
                         \* if there is none
    feed,                \* window-buffer specification: samples to push
    fed,                 \* ... how many of them were pushed
    buf_slice,           \* ... the buffer under PushSlice
    buf_pop,             \* ... the buffer under PushPop
    pure_in,             \* function specification: the arguments drawn
    pure_out,            \* ... the values the functions returned
    detection_thread,    \* app.py global: 0 for None, or the index in
                         \* threads of the Thread object it is bound to
    threads,             \* the threading.Thread objects created so far
    requests,            \* the POST /api/start_practice requests
    message_queue,       \* app.py global: queue.Queue of log messages
    stream_queue,        \* app.py global: queue.Queue of sensor data
    sent,                \* number of calls of backend_log_callback
    polls,               \* the GET /api/get_live_logs requests
    responses,           \* their responses, in order of completion
    stream,              \* backend_data_callback and the GET
                         \* /api/sensor_stream requests
    oled,                \* the AnimatedOLED object, its timer threads and
                         \* the clock
    collector            \* serial_data_collector: the table gestos_raw and
                         \* the list objects of Mpu6050

vars == << program, pc, ser, closes, all_gestures, template_length, realtime_buffer,
           cooldown_counter, evaluation_counter, last, since_eval,
           since_det, feed, fed, buf_slice, buf_pop, pure_in, pure_out,
           detection_thread, threads, requests, message_queue, stream_queue,
           sent, polls, responses, stream, oled, collector >>

detectorVars == << program, pc, ser, closes, all_gestures, template_length,
                   realtime_buffer, cooldown_counter, evaluation_counter,
                   last, since_eval, since_det >>

bufferVars == << feed, fed, buf_slice, buf_pop >>

pureVars == << pure_in, pure_out >>

serviceVars == << detection_thread, threads, requests >>

logVars == << message_queue, stream_queue, sent, polls, responses >>

appVars == << detection_thread, threads, requests, message_queue,
              stream_queue, sent, polls, responses >>

auxVars == << stream, oled, collector >>

\* no function applied
NoCall == [op |-> "none"]

MaxRequests == 3
MaxPolls == 2
MaxMessages == 3

MaxStreamPolls == 2
MaxData == 5

\* backend_data_callback not running, no data point produced, no
\* sensor_stream request under way
NewStream ==
    [pc |-> "idle", produced |-> 0, dropped |-> 0,
     polls |-> [p \in 1..MaxStreamPolls |-> [pc |-> "idle", data_points |-> <<>>]]]

\* Mpu6050.__init__ has the default argument data = []: the list is made
\* once, when the class is defined, and is empty then; no row is stored and
\* load_data_to_objects was never called
NewCollector ==
    [gestos_raw |-> <<>>, defaults |-> <<>>, rows |-> <<>>, returned |-> <<>>,
     loads |-> 0]

\* AnimatedOLED.__init__ of the program named: mode idle, no figure, no
\* timer thread; the clock counts iterations of loop_animacion, issued
\* the commands typed so far
NewOled(oled_program) ==
    [program |-> oled_program, clock |-> 0, issued |-> 0,
     modo |-> "idle", figura_actual |-> "none", frame |-> 0,
     is_skull_playing |-> FALSE, skull_frame_counter |-> 0,
     static_image_display |-> "none", static_image_end_time |-> 0,
     timers |-> {}, shown |-> <<>>,
     last_display |-> [cmd |-> 0, comando |-> "none", at |-> 0, ended |-> TRUE],
     idle_by |-> 0]

\* the parts of the system outside the detector and the web service, as
\* they are when their modules are loaded
InitAux ==
    /\ stream = NewStream
    /\ oled = NewOled("integrado_test")
    /\ collector = NewCollector

\* app.py is imported: detection_thread = None, two empty queues, no
\* request under way
InitApp ==
    /\ detection_thread = 0
    /\ threads = <<>>
    /\ requests = [r \in 1..MaxRequests |-> [pc |-> "idle", response |-> "none"]]
    /\ message_queue = <<>>
    /\ stream_queue = <<>>
    /\ sent = 0
    /\ polls = [p \in 1..MaxPolls |-> [pc |-> "idle", messages |-> <<>>, begun |-> 0]]
    /\ responses = <<>>

Programs == {"run_detector", "run_integrated_detector"}

\* the module is imported: realtime_buffer = [], cooldown_counter = 0
InitDetector ==
    /\ program \in Programs
    /\ pc = "idle"
    /\ ser = "none"
    /\ closes = 0
    /\ all_gestures = <<>>
    /\ template_length = 0
    /\ realtime_buffer = <<>>
    /\ cooldown_counter = 0
    /\ evaluation_counter = 0
    /\ last = NoEvaluation("import", FALSE)
    /\ since_eval = -1
    /\ since_det = -1

Init ==
    /\ InitDetector
    /\ InitApp
    /\ InitAux
    /\ feed = <<>>
    /\ fed = 0
    /\ buf_slice = <<>>
    /\ buf_pop = <<>>
    /\ pure_in = NoCall
    /\ pure_out = NoCall

\* since_eval saturates here
SinceEvalCap == STEP_SIZE + 2

EvaluationKinds == {"inactive", "nomatch", "ambiguous", "detected", "evalerror"}
AcceptedKinds == EvaluationKinds \cup {"cooldown", "wait"}

\* the function is called: the gestures are loaded; with none it returns
\* (Entrenamiento.py lines 270-291, Testing_Final.py lines 524-530)
StartNoGestures(disk, target) ==
    /\ pc = "idle"
    /\ program = "run_integrated_detector" => target.all
    /\ LoadGestures(disk, target) = <<>>
    /\ last' = NoEvaluation("no_gestures", FALSE)
    /\ ser' = "none"
    /\ closes' = 0
    /\ UNCHANGED << program, pc, all_gestures, template_length,
                    realtime_buffer, cooldown_counter, evaluation_counter,
                    since_eval, since_det >>
    /\ UNCHANGED bufferVars
    /\ UNCHANGED pureVars
    /\ UNCHANGED appVars
    /\ UNCHANGED auxVars

\* the serial port cannot be opened: the function returns
\* (Entrenamiento.py lines 295-304, Testing_Final.py lines 532-540)
StartOpenFails(disk, target) ==
    /\ pc = "idle"
    /\ program = "run_integrated_detector" => target.all
    /\ LoadGestures(disk, target) # <<>>
    /\ last' = NoEvaluation("open_failed", FALSE)
    /\ ser' = "none"
    /\ closes' = 0
    /\ UNCHANGED << program, pc, all_gestures, template_length,
                    realtime_buffer, cooldown_counter, evaluation_counter,
                    since_eval, since_det >>
    /\ UNCHANGED bufferVars
    /\ UNCHANGED pureVars
    /\ UNCHANGED appVars
    /\ UNCHANGED auxVars

\* the function is called and reaches its loop
\* (Entrenamiento.py lines 270-306, Testing_Final.py lines 521-542)
Start(disk, target) ==
    /\ pc = "idle"
    /\ program = "run_integrated_detector" => target.all
    /\ LoadGestures(disk, target) # <<>>
    /\ all_gestures' = LoadGestures(disk, target)
    /\ template_length' = LoadGestures(disk, target)[1].template_length
    /\ ser' = "open"
    /\ closes' = 0
    /\ evaluation_counter' = 0
    /\ pc' = "loop"
    /\ last' = NoEvaluation("start", FALSE)
    /\ since_eval' = -1
    /\ since_det' = -1
    /\ UNCHANGED << program, realtime_buffer, cooldown_counter >>
    /\ UNCHANGED bufferVars
    /\ UNCHANGED pureVars
    /\ UNCHANGED appVars
    /\ UNCHANGED auxVars

\* the bookkeeping of since_eval and of the gap between evaluations
NextSinceEval(kind) ==
    IF kind = "detected" THEN -1
    ELSE IF kind \in EvaluationKinds THEN 0
    ELSE IF kind \in AcceptedKinds /\ since_eval # -1
    THEN Min(since_eval + 1, SinceEvalCap)
    ELSE since_eval

\* since_det saturates here
SinceDetCap == DETECTION_WINDOW + COOLDOWN_SAMPLES

NextSinceDet(kind) ==
    IF kind = "detected" THEN 0
    ELSE IF since_det = -1 \/ kind \in EvaluationKinds THEN -1
    ELSE IF kind \in AcceptedKinds THEN Min(since_det + 1, SinceDetCap)
    ELSE since_det

\* at the first evaluation after a detection: the number of samples
\* accepted since that detection, this one included
AfterOf(kind) ==
    IF kind \in EvaluationKinds /\ since_det # -1
    THEN Min(since_det + 1, SinceDetCap) ELSE -1

GapOf(kind) ==
    IF kind \in EvaluationKinds /\ since_eval # -1
    THEN Min(since_eval + 1, SinceEvalCap) ELSE -1

\* the exception a pass of the loop body ends with
RaisedBy(kind) ==
    IF kind \in {"valueerror", "evalerror"} THEN "ValueError" ELSE "none"

\* ValueError handled like any other exception
HandlerBreaksOnValueError(prog, exc) == IF exc = "none" THEN "loop" ELSE "idle"

\* the except clauses around the loop body: ValueError is caught inside the
\* loop, which goes on; any other exception ends the loop
\* (Entrenamiento.py lines 411-421, Testing_Final.py lines 592-596)
Handler(prog, exc) == IF exc \in {"none", "ValueError"} THEN "loop" ELSE "idle"

\* how the call ends: run_detector prints the exception and returns;
\* run_integrated_detector catches KeyboardInterrupt only, anything else
\* propagates to its caller
ExitKind(prog, exc) ==
    IF exc = "KeyboardInterrupt" THEN "stopped"
    ELSE IF prog = "run_detector" THEN "error_printed"
    ELSE "error_raised"

\* the handle left as it is
LeaveOpen(prog, s, n) == [ser |-> s, closes |-> n]

\* run_detector: ser.close() after the loop; run_integrated_detector:
\* finally: if ser.is_open: ser.close()
CloseOnExit(prog, s, n) ==
    IF prog = "run_detector" \/ s = "open"
    THEN [ser |-> "closed", closes |-> n + 1]
    ELSE [ser |-> s, closes |-> n]

Apply(result) ==
    LET after == Handler(program, RaisedBy(result.obs.kind))
        handle == IF after = "idle" THEN CloseOnExit(program, ser, closes)
                  ELSE [ser |-> ser, closes |-> closes]
    IN  /\ realtime_buffer' = result.buf
        /\ cooldown_counter' = result.cd
        /\ evaluation_counter' = result.ec
        /\ last' = [result.obs EXCEPT !.gap = GapOf(result.obs.kind),
                                      !.after = AfterOf(result.obs.kind)]
        /\ since_eval' = NextSinceEval(result.obs.kind)
        /\ since_det' = NextSinceDet(result.obs.kind)
        /\ pc' = after
        /\ ser' = handle.ser
        /\ closes' = handle.closes
        /\ UNCHANGED << program, all_gestures, template_length >>
        /\ UNCHANGED bufferVars
        /\ UNCHANGED pureVars
        /\ UNCHANGED appVars
        /\ UNCHANGED auxVars

\* run_detector: ser.in_waiting > 0 and one pass over the record read
DetectorRecord(line) ==
    /\ program = "run_detector"
    /\ pc = "loop"
    /\ Apply(DetectorPass(line, realtime_buffer, cooldown_counter,
                          evaluation_counter, all_gestures, template_length))

\* run_integrated_detector: ser.in_waiting and one pass over the record read
IntegratedRecord(line) ==
    /\ program = "run_integrated_detector"
    /\ pc = "loop"
    /\ Apply(IntegratedPass(line, realtime_buffer, cooldown_counter,
                            evaluation_counter, all_gestures, template_length))

\* an exception that ends the loop: the port is closed and the call is
\* over; its locals are gone, the module globals stay
Leave(exc) ==
    /\ pc = "loop"
    /\ Handler(program, exc) = "idle"
    /\ pc' = "idle"
    /\ ser' = CloseOnExit(program, ser, closes).ser
    /\ closes' = CloseOnExit(program, ser, closes).closes
    /\ all_gestures' = <<>>
    /\ template_length' = 0
    /\ evaluation_counter' = 0
    /\ since_eval' = -1
    /\ since_det' = -1
    /\ last' = NoEvaluation(ExitKind(program, exc), FALSE)
    /\ UNCHANGED << program, realtime_buffer, cooldown_counter >>
    /\ UNCHANGED bufferVars
    /\ UNCHANGED pureVars
    /\ UNCHANGED appVars
    /\ UNCHANGED auxVars

\* KeyboardInterrupt (Entrenamiento.py lines 416-424, Testing_Final.py
\* lines 595-601)
Stop == Leave("KeyboardInterrupt")

\* the transport fails under ser.in_waiting or ser.readline()
\* (Entrenamiento.py lines 310-311 and 419-424, Testing_Final.py lines
\* 546-548 and 597-601)
TransportError == Leave("SerialException")

Next ==
    \/ \E disk \in Disks, target \in Targets : StartNoGestures(disk, target)
    \/ \E disk \in Disks, target \in Targets : StartOpenFails(disk, target)
    \/ \E disk \in Disks, target \in Targets : Start(disk, target)
    \/ \E line \in Lines : DetectorRecord(line)
    \/ \E line \in Lines : IntegratedRecord(line)
    \/ Stop
    \/ TransportError

Spec == Init /\ [][Next]_vars

\* the same program fed records that hold an infinity and gesture files of
\* unequal template_length
NextFaults ==
    \/ \E disk \in FaultDisks : StartNoGestures(disk, AllGestures)
    \/ \E disk \in FaultDisks : StartOpenFails(disk, AllGestures)
    \/ \E disk \in FaultDisks : Start(disk, AllGestures)
    \/ \E line \in FaultLines : DetectorRecord(line)
    \/ \E line \in FaultLines : IntegratedRecord(line)
    \/ Stop
    \/ TransportError

SpecFaults == Init /\ [][NextFaults]_vars

\* a detector to which well-formed records keep arriving while it runs:
\* whenever ser.in_waiting the loop reads one
ValidRecord ==
    \E line \in ValidLines : DetectorRecord(line) \/ IntegratedRecord(line)

NextLive ==
    \/ \E disk \in Disks, target \in Targets : Start(disk, target)
    \/ \E line \in Lines : DetectorRecord(line)
    \/ \E line \in Lines : IntegratedRecord(line)
    \/ Stop
    \/ TransportError

\* a step of ValidRecord: a pass that accepted its record
AcceptedPass == last'.kind \in AcceptedKinds /\ pc = "loop"

\* weak fairness of ValidRecord, WF_vars(ValidRecord), with its enabling
\* condition written out: ValidRecord is enabled exactly when pc = "loop"
FairValidRecord == []<>(pc # "loop") \/ []<><<AcceptedPass>>_vars

SpecLive == Init /\ [][NextLive]_vars /\ FairValidRecord

(***************************************************************************)
(* The web backend (app.py): the service thread started by                 *)
(* POST /api/start_practice and the log queue read by                      *)
(* GET /api/get_live_logs.  The development server handles each request in *)
(* a thread of its own, so requests interleave statement by statement.     *)
(***************************************************************************)
\* the parameters of run_detector
RunDetectorParams == {"serial_port", "baud_rate", "target_gestures"}

\* the keyword arguments run_ai_service passes
ServiceKwargs == {"serial_port", "baud_rate", "message_callback", "data_callback"}

\* binding keyword arguments to a signature without **kwargs
BindArguments(params, kwargs) ==
    IF kwargs \subseteq params THEN "bound" ELSE "TypeError"

NewThread == [state |-> "new", called |-> FALSE, exit |-> "none"]

\* threading.Thread.is_alive()
is_alive(t) == threads[t].state = "alive"

SetRequest(r, to, response) ==
    requests' = [requests EXCEPT ![r] = [pc |-> to, response |-> response]]

\* start_practice: if detection_thread is not None and
\* detection_thread.is_alive(): return
CheckActive(r) ==
    /\ requests[r].pc = "idle"
    /\ IF detection_thread # 0 /\ is_alive(detection_thread)
       THEN SetRequest(r, "done", "already_active")
       ELSE SetRequest(r, "clear_messages", "none")
    /\ UNCHANGED << detection_thread, threads >>
    /\ UNCHANGED logVars
    /\ UNCHANGED detectorVars
    /\ UNCHANGED bufferVars
    /\ UNCHANGED pureVars
    /\ UNCHANGED auxVars

\* with message_queue.mutex: message_queue.queue.clear()
ClearMessages(r) ==
    /\ requests[r].pc = "clear_messages"
    /\ message_queue' = <<>>
    /\ SetRequest(r, "clear_stream", "none")
    /\ UNCHANGED << detection_thread, threads >>
    /\ UNCHANGED << stream_queue, sent, polls, responses >>
    /\ UNCHANGED detectorVars
    /\ UNCHANGED bufferVars
    /\ UNCHANGED pureVars
    /\ UNCHANGED auxVars

\* with stream_queue.mutex: stream_queue.queue.clear()
ClearStream(r) ==
    /\ requests[r].pc = "clear_stream"
    /\ stream_queue' = <<>>
    /\ SetRequest(r, "create", "none")
    /\ UNCHANGED << detection_thread, threads >>
    /\ UNCHANGED << message_queue, sent, polls, responses >>
    /\ UNCHANGED detectorVars
    /\ UNCHANGED bufferVars
    /\ UNCHANGED pureVars
    /\ UNCHANGED auxVars

\* detection_thread = threading.Thread(target=run_ai_service, daemon=True)
CreateThread(r) ==
    /\ requests[r].pc = "create"
    /\ threads' = Append(threads, NewThread)
    /\ detection_thread' = Len(threads) + 1
    /\ SetRequest(r, "start", "none")
    /\ UNCHANGED logVars
    /\ UNCHANGED detectorVars
    /\ UNCHANGED bufferVars
    /\ UNCHANGED pureVars
    /\ UNCHANGED auxVars

\* detection_thread.start(), on the thread the global is bound to at this
\* moment; start() of a thread already started raises RuntimeError and the
\* request fails
StartThread(r) ==
    /\ requests[r].pc = "start"
    /\ IF threads[detection_thread].state = "new"
       THEN /\ threads' = [threads EXCEPT ![detection_thread].state = "alive"]
            /\ SetRequest(r, "done", "started")
       ELSE /\ UNCHANGED threads
            /\ SetRequest(r, "done", "RuntimeError")
    /\ UNCHANGED detection_thread
    /\ UNCHANGED logVars
    /\ UNCHANGED detectorVars
    /\ UNCHANGED bufferVars
    /\ UNCHANGED pureVars
    /\ UNCHANGED auxVars

\* run_ai_service in a started thread: the call of run_detector with the
\* backend's callbacks; an exception is printed and the thread ends
RunAiService(t) ==
    /\ is_alive(t)
    /\ ~threads[t].called
    /\ threads' =
          [threads EXCEPT ![t] =
              IF BindArguments(RunDetectorParams, ServiceKwargs) = "bound"
              THEN [state |-> "alive", called |-> TRUE, exit |-> "none"]
              ELSE [state |-> "dead", called |-> TRUE,
                    exit |-> BindArguments(RunDetectorParams, ServiceKwargs)]]
    /\ UNCHANGED << detection_thread, requests >>
    /\ UNCHANGED logVars
    /\ UNCHANGED detectorVars
    /\ UNCHANGED bufferVars
    /\ UNCHANGED pureVars
    /\ UNCHANGED auxVars

NextApp ==
    \/ \E r \in 1..MaxRequests : CheckActive(r)
    \/ \E r \in 1..MaxRequests : ClearMessages(r)
    \/ \E r \in 1..MaxRequests : ClearStream(r)
    \/ \E r \in 1..MaxRequests : CreateThread(r)
    \/ \E r \in 1..MaxRequests : StartThread(r)
    \/ \E t \in 1..Len(threads) : RunAiService(t)

SpecApp == Init /\ [][NextApp]_vars

\* queue.Queue.get_nowait() taking the newest item
GetNewest(q) == [item |-> q[Len(q)], rest |-> SubSeq(q, 1, Len(q) - 1)]

\* queue.Queue.get_nowait() on a non-empty queue: the oldest item
get_nowait(q) == [item |-> Head(q), rest |-> Tail(q)]

\* backend_log_callback: message_queue.put(json_msg); the messages are
\* numbered in the order of the calls
backend_log_callback ==
    /\ sent < MaxMessages
    /\ sent' = sent + 1
    /\ message_queue' = Append(message_queue, sent + 1)
    /\ UNCHANGED << stream_queue, polls, responses >>
    /\ UNCHANGED serviceVars
    /\ UNCHANGED detectorVars
    /\ UNCHANGED bufferVars
    /\ UNCHANGED pureVars
    /\ UNCHANGED auxVars

SetPoll(p, to, messages, begun) ==
    polls' = [polls EXCEPT ![p] =
                 [pc |-> to, messages |-> messages, begun |-> begun]]

\* get_live_logs: messages = []
PollBegin(p) ==
    /\ polls[p].pc = "idle"
    /\ SetPoll(p, "test", <<>>, Len(responses))
    /\ UNCHANGED << message_queue, stream_queue, sent, responses >>
    /\ UNCHANGED serviceVars
    /\ UNCHANGED detectorVars
    /\ UNCHANGED bufferVars
    /\ UNCHANGED pureVars
    /\ UNCHANGED auxVars

\* while not message_queue.empty()
PollTest(p) ==
    /\ polls[p].pc = "test"
    /\ SetPoll(p, IF message_queue = <<>> THEN "return" ELSE "get",
               polls[p].messages, polls[p].begun)
    /\ UNCHANGED << message_queue, stream_queue, sent, responses >>
    /\ UNCHANGED serviceVars
    /\ UNCHANGED detectorVars
    /\ UNCHANGED bufferVars
    /\ UNCHANGED pureVars
    /\ UNCHANGED auxVars

\* messages.append(message_queue.get_nowait()); queue.Empty ends the loop
PollGet(p) ==
    /\ polls[p].pc = "get"
    /\ IF message_queue = <<>>
       THEN /\ SetPoll(p, "return", polls[p].messages, polls[p].begun)
            /\ UNCHANGED message_queue
       ELSE /\ SetPoll(p, "test",
                       Append(polls[p].messages, get_nowait(message_queue).item),
                       polls[p].begun)
            /\ message_queue' = get_nowait(message_queue).rest
    /\ UNCHANGED << stream_queue, sent, responses >>
    /\ UNCHANGED serviceVars
    /\ UNCHANGED detectorVars
    /\ UNCHANGED bufferVars
    /\ UNCHANGED pureVars
    /\ UNCHANGED auxVars

\* return jsonify({"logs": messages})
PollReturn(p) ==
    /\ polls[p].pc = "return"
    /\ responses' = Append(responses, [logs |-> polls[p].messages,
                                       begun |-> polls[p].begun])
    /\ SetPoll(p, "done", <<>>, polls[p].begun)
    /\ UNCHANGED << message_queue, stream_queue, sent >>
    /\ UNCHANGED serviceVars
    /\ UNCHANGED detectorVars
    /\ UNCHANGED bufferVars
    /\ UNCHANGED pureVars
    /\ UNCHANGED auxVars

\* one service run: messages are enqueued while get_live_logs is polled
NextLogs ==
    \/ backend_log_callback
    \/ \E p \in 1..MaxPolls : PollBegin(p)
    \/ \E p \in 1..MaxPolls : PollTest(p)
    \/ \E p \in 1..MaxPolls : PollGet(p)
    \/ \E p \in 1..MaxPolls : PollReturn(p)

SpecLogs == Init /\ [][NextLogs]_vars

\* app.py: if stream_queue.qsize() < 100 (scaled down)
STREAM_LIMIT == 3

\* the size tested with <= instead of <
QueueHasRoomLoose(q) == Len(q) <= STREAM_LIMIT

\* stream_queue.qsize() < 100
QueueHasRoom(q) == Len(q) < STREAM_LIMIT

\* backend_data_callback, called by the one producer thread: the test of
\* the size; a data point that finds the queue full is dropped and the
\* callback returns
DataCallbackTest ==
    /\ stream.pc = "idle"
    /\ stream.produced < MaxData
    /\ stream' = [stream EXCEPT
                     !.produced = @ + 1,
                     !.pc = IF QueueHasRoom(stream_queue) THEN "put" ELSE "idle",
                     !.dropped = IF QueueHasRoom(stream_queue) THEN @ ELSE @ + 1]
    /\ UNCHANGED << oled, collector >>
    /\ UNCHANGED appVars
    /\ UNCHANGED detectorVars
    /\ UNCHANGED bufferVars
    /\ UNCHANGED pureVars

\* stream_queue.put(data_dict); the data points are numbered as produced
DataCallbackPut ==
    /\ stream.pc = "put"
    /\ stream_queue' = Append(stream_queue, stream.produced)
    /\ stream' = [stream EXCEPT !.pc = "idle"]
    /\ UNCHANGED << oled, collector >>
    /\ UNCHANGED serviceVars
    /\ UNCHANGED << message_queue, sent, polls, responses >>
    /\ UNCHANGED detectorVars
    /\ UNCHANGED bufferVars
    /\ UNCHANGED pureVars

SetStreamPoll(p, to, data_points) ==
    stream' = [stream EXCEPT !.polls[p] = [pc |-> to, data_points |-> data_points]]

\* sensor_stream: data_points = []
StreamPollBegin(p) ==
    /\ stream.polls[p].pc = "idle"
    /\ SetStreamPoll(p, "test", <<>>)
    /\ UNCHANGED << oled, collector >>
    /\ UNCHANGED appVars
    /\ UNCHANGED detectorVars
    /\ UNCHANGED bufferVars
    /\ UNCHANGED pureVars

\* while not stream_queue.empty()
StreamPollTest(p) ==
    /\ stream.polls[p].pc = "test"
    /\ SetStreamPoll(p, IF stream_queue = <<>> THEN "return" ELSE "get",
                     stream.polls[p].data_points)
    /\ UNCHANGED << oled, collector >>
    /\ UNCHANGED appVars
    /\ UNCHANGED detectorVars
    /\ UNCHANGED bufferVars
    /\ UNCHANGED pureVars

\* data_points.append(stream_queue.get_nowait()); queue.Empty ends the loop
StreamPollGet(p) ==
    /\ stream.polls[p].pc = "get"
    /\ IF stream_queue = <<>>
       THEN /\ SetStreamPoll(p, "return", stream.polls[p].data_points)
            /\ UNCHANGED stream_queue
       ELSE /\ SetStreamPoll(p, "test",
                             Append(stream.polls[p].data_points,
                                    get_nowait(stream_queue).item))
            /\ stream_queue' = get_nowait(stream_queue).rest
    /\ UNCHANGED << oled, collector >>
    /\ UNCHANGED serviceVars
    /\ UNCHANGED << message_queue, sent, polls, responses >>
    /\ UNCHANGED detectorVars
    /\ UNCHANGED bufferVars
    /\ UNCHANGED pureVars

\* return jsonify(data_points)
StreamPollReturn(p) ==
    /\ stream.polls[p].pc = "return"
    /\ SetStreamPoll(p, "idle", <<>>)
    /\ UNCHANGED << oled, collector >>
    /\ UNCHANGED appVars
    /\ UNCHANGED detectorVars
    /\ UNCHANGED bufferVars
    /\ UNCHANGED pureVars

\* one producer of sensor data against the polls of sensor_stream
NextStream ==
    \/ DataCallbackTest
    \/ DataCallbackPut
    \/ \E p \in 1..MaxStreamPolls : StreamPollBegin(p)
    \/ \E p \in 1..MaxStreamPolls : StreamPollTest(p)
    \/ \E p \in 1..MaxStreamPolls : StreamPollGet(p)
    \/ \E p \in 1..MaxStreamPolls : StreamPollReturn(p)

SpecStream == Init /\ [][NextStream]_vars

\* C35: with one producer thread and any interleaving of sensor_stream
\* polls, stream_queue never holds more than the limit of entries, and a
\* data point that arrives at a full queue is dropped and the callback
\* returns at once: the queue is left as it was and the producer is free
\* for the next data point
C35_StreamQueueBounded ==
    /\ [](Len(stream_queue) <= STREAM_LIMIT)
    /\ [][/\ stream'.dropped # stream.dropped =>
                /\ Len(stream_queue) = STREAM_LIMIT
                /\ stream_queue' = stream_queue
                /\ stream'.pc = "idle"
          /\ (stream'.produced # stream.produced /\ Len(stream_queue) = STREAM_LIMIT) =>
                stream'.dropped = stream.dropped + 1]_vars

\* a data point was dropped at a full queue, later a poll took entries and
\* the producer filled the queue again
C35_Witness ==
    /\ stream.dropped >= 1
    /\ Len(stream_queue) = STREAM_LIMIT
    /\ \E p \in 1..MaxStreamPolls : Len(stream.polls[p].data_points) >= 1
    /\ stream_queue[Len(stream_queue)] > STREAM_LIMIT + 1

\* ---- serial_data_collector.py.py and Oscilloscope.py ----

MaxCaptured == 2
MaxLoads == 3

\* the values of accel_x a captured line carries
CapturedValues == {1, 2}

\* the labels load_data_to_objects is called with
Labels == {"", "gesto"}

\* start_serial_capture: data_to_store of a line of five parts
DataToStore(accel_x, magnitude) ==
    [accel_x |-> accel_x, accel_y |-> 0, accel_z |-> 0,
     gyro_x |-> 0, gyro_y |-> 0, gyro_z |-> 0, magnitud |-> magnitude]

\* insert_data: the INSERT names no etiqueta, the column takes its
\* default ''
insert_data(table, data) == Append(table, data @@ [etiqueta |-> ""])

\* the SELECT of load_data_to_objects: every row, or the rows of the label
RECURSIVE Query(_, _)
Query(table, label) ==
    IF table = <<>> THEN <<>>
    ELSE IF label = "" \/ Head(table).etiqueta = label
         THEN << Head(table) >> \o Query(Tail(table), label)
         ELSE Query(Tail(table), label)

\* Input(row[0], ..., row[5])
Input(row) ==
    [accX |-> row.accel_x, accY |-> row.accel_y, accZ |-> row.accel_z,
     angRX |-> row.gyro_x, angRY |-> row.gyro_y, angRZ |-> row.gyro_z]

\* Mpu6050.insertData: self.data.append(input)
insertData(data, input) == Append(data, input)

\* the loop of load_data_to_objects over cursor.fetchall()
RECURSIVE InsertRows(_, _)
InsertRows(data, rows) ==
    IF rows = <<>> THEN data
    ELSE InsertRows(insertData(data, Input(Head(rows))), Tail(rows))

\* Mpu6050(): self.data = data, the default list itself
Mpu6050(defaults) == defaults

\* load_data_to_objects: the rows of the query, the list returned
\* (mpu_data_set.getData() is self.data) and the default list afterwards,
\* which is the same list object
load_data_to_objects(table, defaults, label) ==
    [rows |-> Query(table, label),
     returned |-> InsertRows(Mpu6050(defaults), Query(table, label)),
     defaults |-> InsertRows(Mpu6050(defaults), Query(table, label))]

\* one line of five parts read from the serial port and stored
Capture(accel_x) ==
    /\ Len(collector.gestos_raw) < MaxCaptured
    /\ collector' = [collector EXCEPT
                        !.gestos_raw = insert_data(@, DataToStore(accel_x, accel_x))]
    /\ UNCHANGED << stream, oled >>
    /\ UNCHANGED appVars
    /\ UNCHANGED detectorVars
    /\ UNCHANGED bufferVars
    /\ UNCHANGED pureVars

\* a call of load_data_to_objects(conn, label)
LoadData(label) ==
    /\ collector.loads < MaxLoads
    /\ collector' =
           [gestos_raw |-> collector.gestos_raw, loads |-> collector.loads + 1]
           @@ load_data_to_objects(collector.gestos_raw, collector.defaults, label)
    /\ UNCHANGED << stream, oled >>
    /\ UNCHANGED appVars
    /\ UNCHANGED detectorVars
    /\ UNCHANGED bufferVars
    /\ UNCHANGED pureVars

NextCollector ==
    \/ \E accel_x \in CapturedValues : Capture(accel_x)
    \/ \E label \in Labels : LoadData(label)

SpecCollector == Init /\ [][NextCollector]_vars

RECURSIVE InputsOf(_)
InputsOf(rows) ==
    IF rows = <<>> THEN <<>> ELSE << Input(Head(rows)) >> \o InputsOf(Tail(rows))

\* C39: every call of load_data_to_objects returns one Input per row of
\* its own query, in row order, and nothing an earlier call loaded
C39_OneInputPerRow ==
    collector.loads > 0 => collector.returned = InputsOf(collector.rows)

\* ---- the OLED programs: oledTEST.py, integrado_test.py and the
\* ---- AnimatedOLED of Testing_Final.py ----

MaxTime == 7
MaxCommands == 3

\* time.sleep(3) of the return-to-idle threads, in iterations of
\* loop_animacion (60 at ANIMATION_FPS = 20, scaled down)
TIMER_TICKS == 3

\* len(self.skull_frames): the frames of Skull.mp4, or ANIMATION_FPS error
\* frames when the file is missing (scaled down)
SKULL_FRAMES == 3

\* len(self.idle_frames) (scaled down)
IDLE_FRAMES == 2

\* buzzer.get_duracion_melodia(...) + 0.5, in iterations (scaled down)
STATIC_DURATION == 2

OledPrograms == {"oledTEST", "Testing_Final", "integrado_test"}

\* keys of self.figuras that the commands below use
Figuras == {"feliz", "triste"}

\* the commands typed at the prompt of each program; "nada" is a name no
\* program knows
Comandos(oled_program) ==
    CASE oled_program = "oledTEST" -> {"feliz", "triste", "nada"}
      [] oled_program = "Testing_Final" -> {"bombilla", "calavera", "nada"}
      [] oled_program = "integrado_test" ->
             {"skull", "navidad", "amongus", "feliz", "error", "nada"}

\* the display of the command counted o.issued + 1 starts, at the time
\* o.clock
Displays(o, comando) ==
    [o EXCEPT !.last_display = [cmd |-> o.issued + 1, comando |-> comando,
                                at |-> o.clock, ended |-> FALSE],
              !.idle_by = 0]

\* threading.Thread(target=volver_idle).start(): the thread of the command
\* counted o.issued + 1 wakes TIMER_TICKS later
StartTimer(o) ==
    [o EXCEPT !.timers = @ \cup {[cmd |-> o.issued + 1,
                                  wake |-> o.clock + TIMER_TICKS]}]

\* integrado_test.py mostrar_figura: modo and figura_actual, no thread
mostrar_figura(o, nombre) ==
    IF nombre \in Figuras
    THEN [Displays(o, nombre) EXCEPT !.modo = "figura", !.figura_actual = nombre]
    ELSE o

\* oledTEST.py mostrar_figura: the same and the thread of volver_idle
mostrar_figura_oledTEST(o, nombre) ==
    IF nombre \in Figuras THEN StartTimer(mostrar_figura(o, nombre)) ELSE o

\* Testing_Final.py mostrar_ascii
mostrar_ascii(o, nombre) ==
    IF nombre \in ascii_art
    THEN StartTimer([Displays(o, nombre) EXCEPT !.modo = "ascii",
                                                !.figura_actual = nombre])
    ELSE o

\* integrado_test.py mostrar_skull
mostrar_skull(o) ==
    [Displays(o, "skull") EXCEPT !.modo = "skull", !.is_skull_playing = TRUE,
                                 !.skull_frame_counter = 0, !.shown = <<>>]

\* integrado_test.py mostrar_imagen_con_temporizador
mostrar_imagen_con_temporizador(o, imagen, duracion) ==
    [Displays(o, imagen) EXCEPT !.modo = "static_image",
                                !.static_image_display = imagen,
                                !.static_image_end_time = o.clock + duracion]

\* integrado_test.py ejecutar_comando; 'error' is no key of figuras, so
\* mostrar_figura('error') is False and the branch of 'error' is taken
ejecutar_comando(o, comando) ==
    CASE comando = "skull" -> mostrar_skull(o)
      [] comando \in {"navidad", "amongus"} ->
             mostrar_imagen_con_temporizador(o, comando, STATIC_DURATION)
      [] comando \in Figuras -> StartTimer(mostrar_figura(o, comando))
      [] comando = "error" -> StartTimer(mostrar_figura(o, "triste"))
      [] OTHER -> o

\* one command typed at the prompt of the program
Comando(comando) ==
    /\ oled.issued < MaxCommands
    /\ comando \in Comandos(oled.program)
    /\ oled' = [(CASE oled.program = "oledTEST" -> mostrar_figura_oledTEST(oled, comando)
                   [] oled.program = "Testing_Final" -> mostrar_ascii(oled, comando)
                   [] oled.program = "integrado_test" -> ejecutar_comando(oled, comando))
                EXCEPT !.issued = @ + 1]
    /\ UNCHANGED << stream, collector >>
    /\ UNCHANGED appVars
    /\ UNCHANGED detectorVars
    /\ UNCHANGED bufferVars
    /\ UNCHANGED pureVars

\* whether the woken thread assigns self.modo = "idle": always in
\* oledTEST.py and integrado_test.py, under if self.modo == "ascii" in
\* Testing_Final.py
TimerAssigns(o) == o.program = "Testing_Final" => o.modo = "ascii"

\* volver_idle / _volver_idle_delay after its time.sleep(3)
volver_idle(o, timer) ==
    [o EXCEPT !.timers = @ \ {timer},
              !.modo = IF TimerAssigns(o) THEN "idle" ELSE @,
              !.figura_actual = IF TimerAssigns(o) THEN "none" ELSE @,
              !.idle_by = IF TimerAssigns(o) THEN timer.cmd ELSE @,
              !.last_display.ended = IF o.last_display.cmd = timer.cmd THEN TRUE ELSE @]

\* the return-to-idle thread of the command counted cmd wakes when its
\* three seconds are over
TimerFires(cmd) ==
    /\ \E timer \in oled.timers :
           /\ timer.cmd = cmd
           /\ timer.wake <= oled.clock
           /\ oled' = volver_idle(oled, timer)
    /\ UNCHANGED << stream, collector >>
    /\ UNCHANGED appVars
    /\ UNCHANGED detectorVars
    /\ UNCHANGED bufferVars
    /\ UNCHANGED pureVars

\* dibujar_idle: the next idle frame
dibujar_idle(o) == [o EXCEPT !.frame = (@ + 1) % IDLE_FRAMES]

\* integrado_test.py dibujar_skull
dibujar_skull(o) ==
    IF o.is_skull_playing
    THEN IF o.skull_frame_counter < SKULL_FRAMES
         THEN [o EXCEPT !.shown = Append(@, o.skull_frame_counter),
                        !.skull_frame_counter = @ + 1]
         ELSE [o EXCEPT !.is_skull_playing = FALSE,
                        !.skull_frame_counter = 0,
                        !.modo = "idle",
                        !.last_display.ended = TRUE]
    ELSE o

\* integrado_test.py dibujar_static_image
dibujar_static_image(o) ==
    IF o.static_image_display # "none" /\ o.clock < o.static_image_end_time
    THEN o
    ELSE [o EXCEPT !.static_image_display = "none",
                   !.modo = "idle",
                   !.last_display.ended = TRUE]

\* one iteration of loop_animacion, which takes one frame delay; a thread
\* whose sleep is over runs before the next iteration
loop_animacion ==
    /\ oled.clock < MaxTime
    /\ \A timer \in oled.timers : timer.wake > oled.clock
    /\ oled' = [(CASE oled.modo = "idle" -> dibujar_idle(oled)
                   [] oled.modo = "skull" -> dibujar_skull(oled)
                   [] oled.modo = "static_image" -> dibujar_static_image(oled)
                   [] OTHER -> oled)
                EXCEPT !.clock = @ + 1]
    /\ UNCHANGED << stream, collector >>
    /\ UNCHANGED appVars
    /\ UNCHANGED detectorVars
    /\ UNCHANGED bufferVars
    /\ UNCHANGED pureVars

\* each of the three programs, started
InitOled ==
    /\ InitApp
    /\ stream = NewStream
    /\ collector = NewCollector
    /\ oled \in {NewOled(oled_program) : oled_program \in OledPrograms}
    /\ program = "run_detector"
    /\ pc = "idle"
    /\ ser = "none"
    /\ closes = 0
    /\ all_gestures = <<>>
    /\ template_length = 0
    /\ realtime_buffer = <<>>
    /\ cooldown_counter = 0
    /\ evaluation_counter = 0
    /\ last = NoEvaluation("import", FALSE)
    /\ since_eval = -1
    /\ since_det = -1
    /\ feed = <<>>
    /\ fed = 0
    /\ buf_slice = <<>>
    /\ buf_pop = <<>>
    /\ pure_in = NoCall
    /\ pure_out = NoCall

NextOled ==
    \/ \E comando \in UNION {Comandos(p) : p \in OledPrograms} : Comando(comando)
    \/ \E cmd \in 1..MaxCommands : TimerFires(cmd)
    \/ loop_animacion

SpecOled == InitOled /\ [][NextOled]_vars

\* C33: a return-to-idle thread started by an earlier command never sets
\* the mode to idle while the display of a later command is still pending,
\* that is, before the later display's own end (its own thread, the last
\* skull frame, the end of its static image); the later command is one
\* typed after the earlier one, at a later time
C33_TimerLeavesLaterDisplay ==
    oled.idle_by # 0 =>
        ~(/\ oled.last_display.cmd > oled.idle_by
          /\ oled.last_display.at > oled.clock - TIMER_TICKS
          /\ ~oled.last_display.ended)

\* C34: when 'skull' is the last command and the mode is back to idle,
\* every skull frame was displayed exactly once, in order
C34_SkullPlaysOnce ==
    (oled.last_display.comando = "skull" /\ oled.modo = "idle") =>
        oled.shown = [k \in 1..SKULL_FRAMES |-> k - 1]

(***************************************************************************)
(* The window buffer on its own: a sequence of samples is pushed, one at a *)
(* time, into an empty buffer, by the eviction of either program.          *)
(***************************************************************************)
MaxFeed == 7
MaxSampleValue == 1

FeedSamples == {<<k, 0, 0, 0, 0, 0>> : k \in 0..MaxSampleValue}

InitBuffer ==
    /\ InitApp
    /\ InitAux
    /\ program = "run_detector"
    /\ pc = "idle"
    /\ ser = "none"
    /\ closes = 0
    /\ all_gestures = <<>>
    /\ template_length = 0
    /\ realtime_buffer = <<>>
    /\ cooldown_counter = 0
    /\ evaluation_counter = 0
    /\ last = NoEvaluation("import", FALSE)
    /\ since_eval = -1
    /\ since_det = -1
    /\ feed \in [1..MaxFeed -> FeedSamples]
    /\ fed = 0
    /\ buf_slice = <<>>
    /\ buf_pop = <<>>
    /\ pure_in = NoCall
    /\ pure_out = NoCall

\* realtime_buffer.append(sample) and the eviction that follows
\* (Entrenamiento.py lines 317-321, Testing_Final.py lines 554-556)
PushNext ==
    /\ fed < Len(feed)
    /\ fed' = fed + 1
    /\ buf_slice' = PushSlice(buf_slice, feed[fed + 1])
    /\ buf_pop' = PushPop(buf_pop, feed[fed + 1])
    /\ UNCHANGED feed
    /\ UNCHANGED detectorVars
    /\ UNCHANGED pureVars
    /\ UNCHANGED appVars
    /\ UNCHANGED auxVars

NextBuffer == PushNext

SpecBuffer == InitBuffer /\ [][NextBuffer]_vars

(***************************************************************************)
(* The functions on their own: dtw_distance, the matcher and the           *)
(* similarity score are applied to arguments drawn from bounded sets.      *)
(***************************************************************************)
MaxSeqLen == 3
ScoreSteps == 10

\* rows of two columns
PureRows == {<<0, 0>>, <<3, 4>>, <<6, 0>>}

PureSeqs == UNION {[1..n -> PureRows] : n \in 0..MaxSeqLen}

\* the samples LineRest and LineMove parse to
SampleRest == <<0, 0, 0, 0, 0, 0>>
SampleMove == <<1, 0, 0, 0, 0, 2>>

PureWindows == [1..TEMPLATE_LENGTH -> {SampleRest, SampleMove}]

\* the threshold of each program
Thresholds == {DTW_THRESHOLD, DTW_THRESHOLD_INTEGRATED}

\* distances from 0 to the threshold
ScoreDistances(threshold) ==
    {(k * threshold * SCALE) \div ScoreSteps : k \in 0..ScoreSteps}

DtwCalls == {[op |-> "dtw", seq1 |-> a, seq2 |-> b] : a, b \in PureSeqs}

MatchCalls ==
    {[op |-> "match", window |-> w, gestures |-> g] :
        w \in PureWindows, g \in Disks \ {<<>>}}

ScoreCalls ==
    UNION {{[op |-> "score", threshold |-> t, d1 |-> a, d2 |-> b] :
               a, b \in ScoreDistances(t)} : t \in Thresholds}

InitPure ==
    /\ InitApp
    /\ InitAux
    /\ program = "run_detector"
    /\ pc = "idle"
    /\ ser = "none"
    /\ closes = 0
    /\ all_gestures = <<>>
    /\ template_length = 0
    /\ realtime_buffer = <<>>
    /\ cooldown_counter = 0
    /\ evaluation_counter = 0
    /\ last = NoEvaluation("import", FALSE)
    /\ since_eval = -1
    /\ since_det = -1
    /\ feed = <<>>
    /\ fed = 0
    /\ buf_slice = <<>>
    /\ buf_pop = <<>>
    /\ pure_in \in DtwCalls \cup MatchCalls \cup ScoreCalls
    /\ pure_out = NoCall

\* dtw_distance(seq1, seq1), dtw_distance(seq1, seq2), dtw_distance(seq2, seq1)
CallDtw ==
    /\ pure_in.op = "dtw"
    /\ pure_out = NoCall
    /\ pure_out' = [op |-> "dtw",
                    self |-> dtw_distance(List(pure_in.seq1), List(pure_in.seq1)),
                    ab |-> dtw_distance(List(pure_in.seq1), List(pure_in.seq2)),
                    ba |-> dtw_distance(List(pure_in.seq2), List(pure_in.seq1))]
    /\ UNCHANGED pure_in
    /\ UNCHANGED detectorVars
    /\ UNCHANGED bufferVars
    /\ UNCHANGED appVars
    /\ UNCHANGED auxVars

\* the matcher of run_detector (gesture_distances, best_gesture) and the
\* flat loop of run_integrated_detector (min_dist, best_name) on one window
CallMatch ==
    /\ pure_in.op = "match"
    /\ pure_out = NoCall
    /\ LET current == normalize_sequence(
                          extract_temporal_features(List(pure_in.window)))
           dists == GestureDistances(current, pure_in.gestures)
       IN  pure_out' = [op |-> "match",
                        dists |-> dists,
                        best |-> BestIndex(dists),
                        flat |-> FlatBest(current, pure_in.gestures,
                                          [min_dist |-> INF, best_name |-> "None"])]
    /\ UNCHANGED pure_in
    /\ UNCHANGED detectorVars
    /\ UNCHANGED bufferVars
    /\ UNCHANGED appVars
    /\ UNCHANGED auxVars

\* similarity_score / confidence of two distances
CallScore ==
    /\ pure_in.op = "score"
    /\ pure_out = NoCall
    /\ pure_out' = [op |-> "score",
                    s1 |-> SimilarityScore(pure_in.d1, pure_in.threshold),
                    s2 |-> SimilarityScore(pure_in.d2, pure_in.threshold)]
    /\ UNCHANGED pure_in
    /\ UNCHANGED detectorVars
    /\ UNCHANGED bufferVars
    /\ UNCHANGED appVars
    /\ UNCHANGED auxVars

NextPure == CallDtw \/ CallMatch \/ CallScore

SpecPure == InitPure /\ [][NextPure]_vars

(***************************************************************************)
(* Training (train_model): a recording is read, cleaned, the template      *)
(* window is searched and the gesture file is written.  A call is drawn    *)
(* with the state of the gesture file before it; the result holds the      *)
(* state of the file after it.                                             *)
(***************************************************************************)
\* a cell that pd.to_numeric(errors='coerce') turns into NaN
NAN == 2147483647

\* the limits of clean_and_validate_csv
GYRO_LIMIT == 2500
ACC_LIMIT == 200

RowRest == <<0, 0, 0, 0, 0, 0>>
RowActive(k) == <<k, 0, 0, 0, 0, 0>>

\* rows that the cleaning drops: a cell that is not a number, a gyroscope
\* value and an accelerometer value beyond their limits
CorruptRows == { <<NAN, 0, 0, 0, 0, 0>>,
                 <<GYRO_LIMIT + 1, 0, 0, 0, 0, 0>>,
                 <<0, 0, 0, 0, 0, -(ACC_LIMIT + 1)>> }

\* dropna(subset=SENSOR_COLS) and the range filters
RowIsValid(row) ==
    /\ \A c \in 1..NUM_SENSOR_VALUES : row[c] # NAN
    /\ \A c \in 1..3 : row[c] >= -GYRO_LIMIT /\ row[c] <= GYRO_LIMIT
    /\ \A c \in 4..6 : row[c] >= -ACC_LIMIT /\ row[c] <= ACC_LIMIT

clean_and_validate_csv(rows) == SelectSeq(rows, RowIsValid)

\* df.iloc[a:b]: positions a..b-1, cut at the end of the frame
ILoc(rows, a, b) ==
    IF a >= Min(b, Len(rows)) THEN <<>> ELSE SubSeq(rows, a + 1, Min(b, Len(rows)))

\* df_gesture[SENSOR_COLS].std(axis=1), per row, in fixed point
RowActivity(rows) == List([i \in 1..Len(rows) |-> ColumnStd(rows[i])])

\* window['Activity'].mean() of the window that starts at position i
WindowActivity(activity, i) ==
    LET w == ILoc(activity, i, i + TEMPLATE_LENGTH)
    IN  SumSeq(w) \div Len(w)

\* the search loop: for i in range(len(df_gesture) - TEMPLATE_LENGTH)
RECURSIVE SearchBest(_, _, _, _)
SearchBest(activity, i, best_start, max_avg_activity) ==
    IF i >= Len(activity) - TEMPLATE_LENGTH
    THEN [best_start |-> best_start, max_avg_activity |-> max_avg_activity]
    ELSE LET avg_activity == WindowActivity(activity, i)
         IN  IF avg_activity > max_avg_activity
             THEN SearchBest(activity, i + 1, i, avg_activity)
             ELSE SearchBest(activity, i + 1, best_start, max_avg_activity)

\* any number of rows accepted
HasAnyRows(n) == n >= 0

\* the guard len(df_gesture) < TEMPLATE_LENGTH: return
HasEnoughRows(n) == n >= TEMPLATE_LENGTH

\* the middle variant added whatever the length
HasMidVariantAlways(n) == TRUE

\* if len(df_gesture) >= TEMPLATE_LENGTH * 3
HasMidVariant(n) == n >= TEMPLATE_LENGTH * 3

\* the state of a gesture file
NoFile == [state |-> "absent", templates |-> <<>>, template_length |-> 0,
           samples_used |-> 0]
OldFile == [state |-> "trained", templates |-> <<ColumnTemplate(1, <<1, 2, 3, 4>>)>>,
            template_length |-> TEMPLATE_LENGTH, samples_used |-> TEMPLATE_LENGTH]

\* the template of a segment
TemplateOf(segment) == normalize_sequence(extract_temporal_features(segment))

\* train_model(csv_file, gesture_name): what it returns, the gesture file
\* after it, and the window it chose
train_model(csv, file) ==
    IF csv.status # "ok"
    THEN [ret |-> "None", file |-> file, best_start |-> -1, samples |-> 0]
    ELSE
    LET df_gesture == clean_and_validate_csv(csv.rows)
        n == Len(df_gesture)
    IN  IF ~HasEnoughRows(n)
        THEN [ret |-> "None", file |-> file, best_start |-> -1, samples |-> n]
        ELSE
        LET found == SearchBest(RowActivity(df_gesture), 0, 0, 0)
            template_segment == ILoc(df_gesture, found.best_start,
                                     found.best_start + TEMPLATE_LENGTH)
            mid_start == (n \div 2) - (TEMPLATE_LENGTH \div 2)
            templates ==
                <<TemplateOf(template_segment)>>
                \o (IF HasMidVariant(n)
                    THEN <<TemplateOf(ILoc(df_gesture, mid_start,
                                           mid_start + TEMPLATE_LENGTH))>>
                    ELSE <<>>)
        IN  [ret |-> "True",
             file |-> [state |-> "trained", templates |-> templates,
                       template_length |-> TEMPLATE_LENGTH, samples_used |-> n],
             best_start |-> found.best_start, samples |-> n]

\* recordings of up to MaxRows rows: at rest but for one stretch of
\* activity, with at most one corrupt row
MaxRows == 3 * TEMPLATE_LENGTH + 1

Recording(n, b, w, k) ==
    List([i \in 1..n |-> IF i >= b /\ i < b + w THEN RowActive(k) ELSE RowRest])

Recordings ==
    {Recording(n, b, w, k) :
        n \in 0..MaxRows, b \in 1..MaxRows, w \in {1, TEMPLATE_LENGTH}, k \in {6, 12}}

Corrupted(rows) ==
    {[rows EXCEPT ![c] = bad] : c \in {1, Len(rows)} \cap DOMAIN rows, bad \in CorruptRows}

Csvs ==
    {[status |-> "missing", rows |-> <<>>], [status |-> "unreadable", rows |-> <<>>]}
    \cup {[status |-> "ok", rows |-> r] : r \in Recordings}
    \cup UNION {{[status |-> "ok", rows |-> r] : r \in Corrupted(rec)} :
                   rec \in {Recording(n, 2, 1, 6) :
                               n \in (TEMPLATE_LENGTH - 1)..(TEMPLATE_LENGTH + 1)}}

TrainCalls ==
    {[op |-> "train", csv |-> c, file |-> f] : c \in Csvs, f \in {NoFile, OldFile}}

InitTrain ==
    /\ InitDetector
    /\ InitApp
    /\ InitAux
    /\ feed = <<>>
    /\ fed = 0
    /\ buf_slice = <<>>
    /\ buf_pop = <<>>
    /\ pure_in \in TrainCalls
    /\ pure_out = NoCall

CallTrain ==
    /\ pure_in.op = "train"
    /\ pure_out = NoCall
    /\ pure_out' = [op |-> "train"] @@ train_model(pure_in.csv, pure_in.file)
    /\ UNCHANGED pure_in
    /\ UNCHANGED detectorVars
    /\ UNCHANGED bufferVars
    /\ UNCHANGED appVars
    /\ UNCHANGED auxVars

NextTrain == CallTrain

SpecTrain == InitTrain /\ [][NextTrain]_vars

(***************************************************************************)
(* Properties.                                                             *)
(***************************************************************************)
\* new is old with one sample appended and evicted to DETECTION_WINDOW from
\* the head: nothing else was removed
IsPushOf(new, old) ==
    /\ Len(new) = Min(Len(old) + 1, DETECTION_WINDOW)
    /\ \A i \in 1..(Len(new) - 1) : new[i] = old[Len(old) - (Len(new) - 1) + i]

\* the k most recent of the first n samples of s, in arrival order
MostRecent(s, n, k) == [i \in 1..k |-> s[n - k + i]]

ThresholdOf(prog) ==
    IF prog = "run_detector" THEN DTW_THRESHOLD ELSE DTW_THRESHOLD_INTEGRATED

MinOf(d) == CHOOSE v \in {d[i] : i \in 1..Len(d)} : \A j \in 1..Len(d) : v <= d[j]

\* the second-smallest of the values of d, counted with multiplicity
SecondSmallest(d) ==
    LET first == CHOOSE i \in 1..Len(d) : d[i] = MinOf(d)
    IN  MinOf([j \in 1..(Len(d) - 1) |-> IF j < first THEN d[j] ELSE d[j + 1]])

\* C1: in every reachable state of either detector loop the buffer holds at
\* most DETECTION_WINDOW samples
C1_BufferBounded == Len(realtime_buffer) <= DETECTION_WINDOW

\* C1 witness: a pass of run_detector evicted and left the buffer full
C1_Witness ==
    /\ program = "run_detector"
    /\ last.evicted
    /\ Len(realtime_buffer) = DETECTION_WINDOW

\* C2: after any number of pushes into an empty buffer, the buffer holds the
\* most recent min(count_pushed, DETECTION_WINDOW) samples in arrival order,
\* under the slice eviction and under the pop(0) eviction
C2_StrictFifo ==
    /\ buf_slice = MostRecent(feed, fed, Min(fed, DETECTION_WINDOW))
    /\ buf_pop = MostRecent(feed, fed, Min(fed, DETECTION_WINDOW))

\* C2 witness: more samples were pushed than the buffer holds, and the
\* samples are not all alike
C2_Witness ==
    /\ fed > DETECTION_WINDOW + 1
    /\ buf_slice = buf_pop
    /\ buf_slice[1] # buf_slice[Len(buf_slice)]
    /\ feed[1] # buf_slice[1]

\* C3: an accepted sample that arrives while cooldown_counter > 0 decrements
\* the counter by exactly 1 and runs neither the activity gate nor DTW; no
\* step taken while cooldown_counter > 0 reports a detection
C3_CooldownSuppresses ==
    [][cooldown_counter > 0 =>
          /\ last'.event = "none"
          /\ last'.kind \in AcceptedKinds =>
                /\ cooldown_counter' = cooldown_counter - 1
                /\ ~last'.gate
                /\ last'.dtw = 0
                /\ last'.kind = "cooldown"]_vars

\* C3 witness: the first sample after a detection was accepted
C3_Witness ==
    /\ last.kind = "cooldown"
    /\ cooldown_counter = COOLDOWN_SAMPLES - 1
    /\ Len(realtime_buffer) = 1

\* C4: right after a detection the buffer is empty and cooldown_counter is
\* COOLDOWN_SAMPLES
C4_DetectionResets ==
    last.event # "none" =>
        /\ Len(realtime_buffer) = 0
        /\ cooldown_counter = COOLDOWN_SAMPLES

\* C4 witness: run_integrated_detector has just reported a detection
C4_Witness ==
    /\ program = "run_integrated_detector"
    /\ last.kind = "detected"
    /\ last.event # "none"

\* C5: two consecutive evaluations of one run with no detection between them
\* are exactly STEP_SIZE accepted samples apart
C5_EvaluationEveryStep ==
    /\ (last.gate /\ last.gap # -1) => last.gap = STEP_SIZE
    /\ since_eval < STEP_SIZE

\* C5 witness: an evaluation followed an evaluation that detected nothing
C5_Witness ==
    /\ last.gate
    /\ last.gap = STEP_SIZE

\* C6: in run_detector, a best match within DTW_THRESHOLD that is not
\* distinctive (two or more gestures, second best - best <= SIMILARITY_MARGIN)
\* reports no detection, leaves cooldown_counter at 0 and keeps the buffer,
\* and the loop goes on
C6_AmbiguousKeepsState ==
    [][(/\ program = "run_detector"
        /\ last'.gate
        /\ Len(last'.dists) > 1
        /\ MinOf(last'.dists) <= DTW_THRESHOLD * SCALE
        /\ SecondSmallest(last'.dists) - MinOf(last'.dists)
               <= SIMILARITY_MARGIN * SCALE)
       => /\ last'.event = "none"
          /\ cooldown_counter = 0
          /\ cooldown_counter' = 0
          /\ IsPushOf(realtime_buffer', realtime_buffer)
          /\ pc' = "loop"]_vars

\* C6 witness: run_detector has just reported an ambiguous gesture whose two
\* distances differ by less than the margin
C6_Witness ==
    /\ program = "run_detector"
    /\ last.kind = "ambiguous"
    /\ Len(last.dists) = 2
    /\ last.dists[1] # last.dists[2]
    /\ Len(realtime_buffer) >= template_length

\* C7: a best distance equal to the program's DTW_THRESHOLD is accepted as a
\* match (reported as a detection when it is also distinctive, when one
\* gesture is loaded and in the integrated detector); a best distance above
\* it reports nothing, keeps the buffer and leaves cooldown_counter alone
C7_ThresholdInclusive ==
    [][(last'.gate /\ last'.best # -1) =>
          IF last'.best <= ThresholdOf(program) * SCALE
          THEN /\ last'.kind \in {"detected", "ambiguous"}
               /\ (Len(all_gestures) = 1 \/ program = "run_integrated_detector")
                     => last'.event # "none"
          ELSE /\ last'.event = "none"
               /\ last'.kind = "nomatch"
               /\ IsPushOf(realtime_buffer', realtime_buffer)
               /\ cooldown_counter' = cooldown_counter]_vars

\* C7 witness: run_detector has just detected a gesture at a distance equal to
\* DTW_THRESHOLD
C7_Witness ==
    /\ program = "run_detector"
    /\ last.best = DTW_THRESHOLD * SCALE
    /\ last.event # "none"

\* C8: in run_detector a match within the threshold is reported as a
\* detection exactly when one gesture is loaded or the second-smallest
\* per-gesture distance exceeds the best by more than SIMILARITY_MARGIN
C8_StrictMargin ==
    (/\ program = "run_detector"
     /\ last.gate
     /\ last.dists # <<>>
     /\ MinOf(last.dists) <= DTW_THRESHOLD * SCALE)
    => /\ last.best = MinOf(last.dists)
       /\ last.event # "none" <=>
             \/ Len(last.dists) = 1
             \/ SecondSmallest(last.dists) - MinOf(last.dists)
                   > SIMILARITY_MARGIN * SCALE

\* C8 witness: the gap between the two gestures equals the margin and the
\* match was reported ambiguous
C8_Witness ==
    /\ program = "run_detector"
    /\ Len(last.dists) = 2
    /\ SecondSmallest(last.dists) - MinOf(last.dists) = SIMILARITY_MARGIN * SCALE
    /\ last.kind = "ambiguous"

\* all the samples of the window are the same
IsConstantWindow(window) == \A i \in 1..Len(window) : window[i] = window[1]

\* C9: when the window handed to the activity gate is below MIN_ACTIVITY (a
\* constant window is) nothing else is evaluated: no dtw_distance call, no
\* detection, cooldown_counter unchanged, the buffer kept
C9_InactiveSkips ==
    [][(/\ last'.gate
        /\ Len(last'.window) >= 2
        /\ IsConstantWindow(last'.window) \/ BelowMinActivity(last'.window))
       => /\ last'.dtw = 0
          /\ last'.event = "none"
          /\ last'.best = -1
          /\ cooldown_counter' = cooldown_counter
          /\ IsPushOf(realtime_buffer', realtime_buffer)]_vars

\* C9 witness: a constant window of template_length samples was gated out
\* with gestures loaded
C9_Witness ==
    /\ last.kind = "inactive"
    /\ all_gestures # <<>>
    /\ Len(last.window) = template_length
    /\ IsConstantWindow(last.window)

\* C10: a record whose field count is not NUM_SENSOR_VALUES or that has a
\* non-numeric field changes none of realtime_buffer, cooldown_counter and
\* evaluation_counter, and the loop goes on
C10_MalformedDiscarded ==
    [][\A line \in MalformedLines :
          (DetectorRecord(line) \/ IntegratedRecord(line)) =>
              /\ UNCHANGED << realtime_buffer, cooldown_counter, evaluation_counter >>
              /\ pc' = "loop"
              /\ ~last'.gate]_vars

\* C10 witness: a record with a non-numeric field was discarded during a
\* cooldown, with samples in the buffer
C10_Witness ==
    /\ last.kind = "valueerror"
    /\ cooldown_counter > 0
    /\ Len(realtime_buffer) > 0

\* C11: an error raised while a window is evaluated ends the detection loop
\* and reaches the caller; none is swallowed with the loop going on
C11_EvaluationErrorsSurface ==
    [][last'.kind = "evalerror" =>
          /\ pc' = "idle"
          /\ last'.event = "none"]_vars

C13_NeverZeroTemplates ==
    [][/\ pc' = "loop" =>
             /\ all_gestures' # <<>>
             /\ NumTemplates(all_gestures') >= 1
       /\ last'.kind = "no_gestures" =>
             /\ pc = "idle" /\ pc' = "idle"
             /\ ser' = "none" /\ closes' = 0
             /\ UNCHANGED << realtime_buffer, cooldown_counter >>]_vars

\* C13 witness: a call found no gesture and returned, after an earlier run
\* had left samples in the buffer
C13_Witness ==
    /\ last.kind = "no_gestures"
    /\ pc = "idle"
    /\ ser = "none"
    /\ Len(realtime_buffer) > 0

\* C14: with two loaded gestures of different template_length the sample
\* loop never begins
C14_MismatchIsFatal ==
    pc = "loop" =>
        \A g \in 1..Len(all_gestures), h \in 1..Len(all_gestures) :
            all_gestures[g].template_length = all_gestures[h].template_length

\* C15: at the start of every run the buffer is empty and both counters
\* are zero
C15_FreshStart ==
    last.kind = "start" =>
        /\ realtime_buffer = <<>>
        /\ cooldown_counter = 0
        /\ evaluation_counter = 0

NonFatalKinds == {"arity", "valueerror", "inactive", "nomatch", "ambiguous"}

\* C16: after a discarded record, an inactive window, an evaluation without
\* a match or an ambiguous one, the loop is running with the transport
\* open, ready for the next record
C16_NonFatalKeepsRunning ==
    last.kind \in NonFatalKinds =>
        /\ pc = "loop"
        /\ ser = "open"
        /\ closes = 0
        /\ all_gestures # <<>>

\* C16 witness: a sample was accepted after an evaluation that ended
\* without a detection
C16_Witness ==
    /\ last.kind = "wait"
    /\ since_eval >= 1
    /\ pc = "loop"

\* C17: dtw_distance(A, A) = 0 for every non-empty sequence A
C17_SelfDistanceZero ==
    pure_out.op = "dtw" /\ pure_in.seq1 # <<>> => pure_out.self = 0

\* C17 witness: the self-distance of a sequence of MaxSeqLen rows, not all
\* equal, was computed
C17_Witness ==
    /\ pure_out.op = "dtw"
    /\ Len(pure_in.seq1) = MaxSeqLen
    /\ pure_in.seq1[1] # pure_in.seq1[MaxSeqLen]
    /\ pure_out.self = 0

\* C18: dtw_distance(A, B) = dtw_distance(B, A) for sequences of the same
\* number of columns, of equal or different lengths
C18_DtwSymmetric ==
    pure_out.op = "dtw" => pure_out.ab = pure_out.ba

\* C18 witness: two different sequences of different lengths at a finite,
\* non-zero distance
C18_Witness ==
    /\ pure_out.op = "dtw"
    /\ Len(pure_in.seq1) # Len(pure_in.seq2)
    /\ pure_in.seq1 # <<>>
    /\ pure_in.seq2 # <<>>
    /\ pure_out.ab > 0
    /\ pure_out.ab < INF
    /\ pure_out.ab = pure_out.ba

\* the window of a matcher call, as the matcher sees it
PureCurrent ==
    normalize_sequence(extract_temporal_features(List(pure_in.window)))

\* the distance from the window to variant t of gesture g
VariantDistance(g, t) ==
    dtw_distance(PureCurrent, pure_in.gestures[g].templates[t])

\* C19: the distance of each gesture is the smallest DTW distance over its
\* variants; the candidate is a gesture whose distance is the smallest of
\* all, in the matcher of run_detector and in the flat loop of
\* run_integrated_detector; no variant is closer than best_distance
C19_MinOverVariants ==
    pure_out.op = "match" =>
        LET G == pure_in.gestures
            Variants(g) == 1..Len(G[g].templates)
        IN  /\ \A g \in 1..Len(G) :
                  /\ \A t \in Variants(g) : pure_out.dists[g] <= VariantDistance(g, t)
                  /\ \E t \in Variants(g) : pure_out.dists[g] = VariantDistance(g, t)
            /\ pure_out.best \in 1..Len(G)
            /\ \A g \in 1..Len(G) : pure_out.dists[pure_out.best] <= pure_out.dists[g]
            /\ pure_out.flat.min_dist = pure_out.dists[pure_out.best]
            /\ \E g \in 1..Len(G) :
                  /\ G[g].name = pure_out.flat.best_name
                  /\ pure_out.dists[g] = pure_out.flat.min_dist

\* C19 witness: a gesture of two variants whose later variant is the closer
\* one, while another gesture is the candidate
C19_Witness ==
    /\ pure_out.op = "match"
    /\ \E g \in 1..Len(pure_in.gestures) :
          /\ Len(pure_in.gestures[g].templates) = 2
          /\ VariantDistance(g, 2) < VariantDistance(g, 1)
          /\ pure_out.dists[g] = VariantDistance(g, 2)
          /\ pure_out.best # g

\* the score is 100 - 100 * d / threshold, to within the fixed-point unit
IsLinearScore(s, d, threshold) ==
    /\ threshold * (100 * SCALE - s) <= 100 * d
    /\ 100 * d < threshold * (100 * SCALE - s + 1)

\* C20: for a distance from 0 to the threshold the confidence is in
\* [0, 100] and equals 100 - 100 * best_distance / DTW_THRESHOLD: it is 100
\* at distance 0, 0 at the threshold, and strictly decreasing in between
C20_ConfidenceLinear ==
    pure_out.op = "score" =>
        /\ pure_out.s1 >= 0 /\ pure_out.s1 <= 100 * SCALE
        /\ IsLinearScore(pure_out.s1, pure_in.d1, pure_in.threshold)
        /\ pure_in.d1 = 0 => pure_out.s1 = 100 * SCALE
        /\ pure_in.d1 = pure_in.threshold * SCALE => pure_out.s1 = 0
        /\ pure_in.d1 < pure_in.d2 => pure_out.s1 > pure_out.s2

\* C20 witness: two distances strictly between 0 and the threshold of
\* run_integrated_detector, with scores strictly between 0 and 100
C20_Witness ==
    /\ pure_out.op = "score"
    /\ pure_in.threshold = DTW_THRESHOLD_INTEGRATED
    /\ 0 < pure_in.d1 /\ pure_in.d1 < pure_in.d2
    /\ pure_in.d2 < pure_in.threshold * SCALE
    /\ 100 * SCALE > pure_out.s1 /\ pure_out.s1 > pure_out.s2 /\ pure_out.s2 > 0

\* the per-gesture distances of the window the last evaluation matched
LastGestureDistances ==
    GestureDistances(normalize_sequence(extract_temporal_features(last.window)),
                     all_gestures)

\* C21: run_integrated_detector accepts a match only where the decision of
\* run_detector accepts it on the same per-gesture distances: with two or
\* more gestures, a best match within the threshold that is not more than
\* SIMILARITY_MARGIN ahead of the second-best gesture is not a detection
C21_IntegratedSameDecision ==
    program = "run_integrated_detector" /\ last.kind = "detected" =>
        LET d == LastGestureDistances
        IN  Accepts(IsDistinctive(SecondBestDistance(d), d[BestIndex(d)]),
                    Len(all_gestures))

\* C25: the cooldown lasts COOLDOWN_SAMPLES accepted samples: the counter
\* stays within 0..COOLDOWN_SAMPLES, a detection sets it to
\* COOLDOWN_SAMPLES, an accepted sample is skipped without evaluation
\* exactly while the counter is positive, which takes one off it, so that
\* the samples skipped after a detection are the next COOLDOWN_SAMPLES ones;
\* and while well-formed records keep arriving a cooldown comes to its end
C25_CooldownFixedLength ==
    /\ [](cooldown_counter \in 0..COOLDOWN_SAMPLES)
    /\ [][/\ last'.kind = "detected" => cooldown_counter' = COOLDOWN_SAMPLES
          /\ last'.kind \in AcceptedKinds =>
                /\ last'.kind = "cooldown" <=> cooldown_counter > 0
                /\ last'.kind = "cooldown" =>
                      cooldown_counter' = cooldown_counter - 1
                /\ since_det # -1 =>
                      (last'.kind = "cooldown" <=>
                           since_det + 1 <= COOLDOWN_SAMPLES)]_vars
    /\ (pc = "loop" /\ cooldown_counter > 0)
           ~> (pc = "idle" \/ cooldown_counter = 0)

\* C25 witness: the last sample of a cooldown was skipped
C25_Witness ==
    /\ last.kind = "cooldown"
    /\ cooldown_counter = 0
    /\ since_det = COOLDOWN_SAMPLES
    /\ pc = "loop"

\* the samples well-formed records hold
ValidSamples == {SampleRest, SampleMove}

\* buf with sample appended, cut to the last DETECTION_WINDOW samples
Appended(buf, sample) ==
    LET b == buf \o <<sample>>
    IN  IF Len(b) <= DETECTION_WINDOW THEN b
        ELSE [i \in 1..DETECTION_WINDOW |-> b[Len(b) - DETECTION_WINDOW + i]]

\* C26: a sample accepted during the cooldown is appended to the buffer
\* before the cooldown is tested; counted from the detection, the buffer
\* then holds the samples received since, in arrival order, so at the end
\* of the cooldown min(COOLDOWN_SAMPLES, DETECTION_WINDOW) of them
C26_BufferFillsInCooldown ==
    [][last'.kind = "cooldown" =>
          /\ cooldown_counter > 0
          /\ \E sample \in ValidSamples :
                realtime_buffer' = Appended(realtime_buffer, sample)
          /\ since_det # -1 =>
                /\ Len(realtime_buffer') = Min(since_det + 1, DETECTION_WINDOW)
                /\ cooldown_counter' = 0 =>
                      Len(realtime_buffer')
                          = Min(COOLDOWN_SAMPLES, DETECTION_WINDOW)]_vars

\* C26 witness: at the end of a cooldown the buffer holds the
\* COOLDOWN_SAMPLES samples that arrived during it, a moving one last
C26_Witness ==
    /\ last.kind = "cooldown"
    /\ cooldown_counter = 0
    /\ since_det = COOLDOWN_SAMPLES
    /\ Len(realtime_buffer) = Min(COOLDOWN_SAMPLES, DETECTION_WINDOW)
    /\ realtime_buffer[Len(realtime_buffer)] = SampleMove
    /\ realtime_buffer[1] = SampleRest

\* the last n elements of s
LastN(s, n) == [i \in 1..n |-> s[Len(s) - n + i]]

\* C27: the window of every evaluation (activity gate, features, DTW) is
\* the template_length most recent samples of the buffer, the one just
\* read last; none is shorter
C27_WindowIsTemplateLength ==
    [][last'.gate =>
          /\ template_length >= 1
          /\ Len(last'.window) = template_length
          /\ \E sample \in ValidSamples :
                /\ Len(Appended(realtime_buffer, sample)) >= template_length
                /\ last'.window =
                      LastN(Appended(realtime_buffer, sample),
                            template_length)]_vars

\* C27 witness: a full buffer, longer than a template, was evaluated as far
\* as DTW
C27_Witness ==
    /\ last.kind = "nomatch"
    /\ last.evicted
    /\ last.dtw >= 1
    /\ Len(last.window) = template_length
    /\ Len(realtime_buffer) > template_length

\* C28: the first evaluation after a detection comes on accepted sample
\* number max(template_length, COOLDOWN_SAMPLES + STEP_SIZE) after it, which
\* is template_length when COOLDOWN_SAMPLES < template_length and
\* STEP_SIZE <= template_length - COOLDOWN_SAMPLES; two detections are then
\* at least template_length accepted samples apart
C28_FirstEvaluationAfterDetection ==
    last.after # -1 =>
        /\ last.after = Max(template_length, COOLDOWN_SAMPLES + STEP_SIZE)
        /\ (/\ COOLDOWN_SAMPLES < template_length
             /\ STEP_SIZE <= template_length - COOLDOWN_SAMPLES) =>
                  last.after = template_length

\* C28 witness: a second detection, on the first evaluation after the
\* detection before it, template_length samples later
C28_Witness ==
    /\ last.kind = "detected"
    /\ last.after = template_length
    /\ last.after > COOLDOWN_SAMPLES
    /\ since_det = 0

\* C29: with DETECTION_WINDOW >= template_length, while well-formed records
\* keep arriving a running detector evaluates again and again
C29_EvaluationRecurs ==
    []<>(\/ pc = "idle"
         \/ DETECTION_WINDOW < template_length
         \/ last.kind \in EvaluationKinds)

\* C29 witness: an evaluation ran on a buffer that had filled up
C29_Witness ==
    /\ pc = "loop"
    /\ last.kind \in EvaluationKinds
    /\ last.evicted
    /\ Len(realtime_buffer) = DETECTION_WINDOW

\* the monotone warping paths from cell (1, 1) to cell (i, j): sequences of
\* cells, each one step (1,0), (0,1) or (1,1) after the one before
RECURSIVE PathsTo(_, _)
PathsTo(i, j) ==
    IF i < 1 \/ j < 1 THEN {}
    ELSE IF i = 1 /\ j = 1 THEN {<< <<1, 1>> >>}
    ELSE {Append(p, <<i, j>>) :
            p \in PathsTo(i - 1, j) \cup PathsTo(i, j - 1)
                  \cup PathsTo(i - 1, j - 1)}

\* the sum of the step costs of the cells of a path
PathCost(seq1, seq2, p) ==
    SumSeq(List([k \in 1..Len(p) |-> Euclidean(seq1[p[k][1]], seq2[p[k][2]])]))

\* C30: for non-empty sequences dtw_distance is the least cost of a monotone
\* warping path from (1, 1) to (n, m); the border of the matrix is infinite
\* except at (0, 0), so with exactly one sequence empty the result is
\* infinite and with both empty it is 0
C30_LeastPathCost ==
    pure_out.op = "dtw" =>
        LET n == Len(pure_in.seq1)
            m == Len(pure_in.seq2)
            costs == {PathCost(pure_in.seq1, pure_in.seq2, p) : p \in PathsTo(n, m)}
        IN  /\ n >= 1 /\ m >= 1 =>
                /\ pure_out.ab \in costs
                /\ \A c \in costs : pure_out.ab <= c
            /\ n = 0 /\ m = 0 => pure_out.ab = 0
            /\ (n = 0) # (m = 0) => pure_out.ab = INF

\* C30 witness: sequences of different lengths whose cheapest path takes a
\* diagonal step and costs less than some other path
C30_Witness ==
    /\ pure_out.op = "dtw"
    /\ Len(pure_in.seq1) = MaxSeqLen
    /\ Len(pure_in.seq2) = 2
    /\ pure_out.ab > 0
    /\ \E p \in PathsTo(MaxSeqLen, 2) :
          PathCost(pure_in.seq1, pure_in.seq2, p) > pure_out.ab
    /\ \A p \in PathsTo(MaxSeqLen, 2) :
          PathCost(pure_in.seq1, pure_in.seq2, p) = pure_out.ab =>
              \E k \in 2..Len(p) : p[k][1] = p[k-1][1] + 1 /\ p[k][2] = p[k-1][2] + 1

\* C22: whatever the interleaving of start_practice requests, at most one
\* detection thread is alive at a time
C22_OneDetectionThread ==
    Cardinality({t \in 1..Len(threads) : is_alive(t)}) <= 1

\* C23: a service thread that has made its call of run_detector is in the
\* detector loop, alive, with the backend's callbacks bound
C23_ServiceRunsDetector ==
    \A t \in 1..Len(threads) :
        threads[t].called => is_alive(t) /\ threads[t].exit = "none"

\* where message k is: in the queue, in the list of a poll under way, in a
\* response
PlacesOf(k) ==
    {<<"queue", 0, i>> : i \in {j \in DOMAIN message_queue : message_queue[j] = k}}
    \cup UNION {{<<"poll", p, i>> :
                    i \in {j \in DOMAIN polls[p].messages :
                              polls[p].messages[j] = k}} : p \in 1..MaxPolls}
    \cup UNION {{<<"response", n, i>> :
                    i \in {j \in DOMAIN responses[n].logs :
                              responses[n].logs[j] = k}} : n \in DOMAIN responses}

Increasing(q) == \A i, j \in DOMAIN q : i < j => q[i] < q[j]

\* C24: every message enqueued is in exactly one place, so it is returned
\* by one poll and only one once the queue is drained; the messages of a
\* response are in the order they were enqueued, and so are those of two
\* polls of which the second began after the first had returned
C24_ExactlyOnceInOrder ==
    /\ \A k \in 1..sent : Cardinality(PlacesOf(k)) = 1
    /\ (message_queue = <<>> /\ \A p \in 1..MaxPolls : polls[p].messages = <<>>) =>
          \A k \in 1..sent :
              \E n \in DOMAIN responses : \E i \in DOMAIN responses[n].logs :
                  responses[n].logs[i] = k
    /\ \A n \in DOMAIN responses : Increasing(responses[n].logs)
    /\ \A n, o \in DOMAIN responses :
          n < o /\ responses[o].begun >= n =>
              Increasing(responses[n].logs \o responses[o].logs)

\* C24 witness: two concurrent polls drained three messages between them,
\* the first to return holding the first and the third
C24_Witness ==
    /\ sent = MaxMessages
    /\ message_queue = <<>>
    /\ Len(responses) = 2
    /\ responses[2].begun = 0
    /\ responses[1].logs = <<1, 3>>
    /\ responses[2].logs = <<2>>

\* C40: after a pass, a detector out of cooldown whose buffer holds a
\* window has counted fewer than STEP_SIZE samples since its last
\* evaluation; every evaluation resets evaluation_counter, and neither a
\* sample skipped for the cooldown nor a discarded record changes it
C40_CounterBelowStep ==
    /\ [](cooldown_counter = 0 /\ Len(realtime_buffer) >= template_length =>
              evaluation_counter < STEP_SIZE)
    /\ [][/\ last'.kind \in EvaluationKinds => evaluation_counter' = 0
          /\ last'.kind \in {"cooldown", "arity", "valueerror"} =>
                evaluation_counter' = evaluation_counter]_vars

\* C40 witness: an evaluation that found no match, on a full buffer, reset
\* the counter
C40_Witness ==
    /\ pc = "loop"
    /\ last.kind = "nomatch"
    /\ last.gap = STEP_SIZE
    /\ cooldown_counter = 0
    /\ Len(realtime_buffer) >= template_length
    /\ evaluation_counter = 0

\* C31: in run_integrated_detector the detection of a gesture that
\* GESTURE_ACTIONS does not hold shows no figure, plays no melody and starts
\* no shutdown, and still clears the buffer, starts the cooldown and leaves
\* the loop running
C31_UnmappedGestureOnlyResets ==
    (/\ program = "run_integrated_detector"
     /\ last.kind = "detected"
     /\ last.event \notin DOMAIN GESTURE_ACTIONS) =>
        /\ last.action = NoAction
        /\ realtime_buffer = <<>>
        /\ cooldown_counter = COOLDOWN_SAMPLES
        /\ pc = "loop"
        /\ ser = "open"

\* C31 witness: 'Alohomora', trained but without an entry, was detected
C31_Witness ==
    /\ program = "run_integrated_detector"
    /\ last.kind = "detected"
    /\ last.event = "Alohomora"
    /\ last.action.oled = "none"
    /\ cooldown_counter = COOLDOWN_SAMPLES

\* C32: a pass of run_integrated_detector starts apagar_sistema exactly
\* when it detected the gesture named 'skull'
C32_ShutdownOnlyOnSkull ==
    program = "run_integrated_detector" =>
        (last.action.shutdown <=> (last.kind = "detected" /\ last.event = "skull"))

\* C32 witness: 'skull' was detected and the shutdown started with its
\* figure and its melody
C32_Witness ==
    /\ program = "run_integrated_detector"
    /\ last.kind = "detected"
    /\ last.event = "skull"
    /\ last.action = [oled |-> "calavera", buzzer |-> "skull", shutdown |-> TRUE]

\* the cleaned recording of the current call and its per-row activity
TrainRows == clean_and_validate_csv(pure_in.csv.rows)
TrainActivity == RowActivity(TrainRows)

\* C36: the template window is one of highest mean activity among the
\* windows of TEMPLATE_LENGTH rows starting at 0 .. len - TEMPLATE_LENGTH
C36_MostActiveWindow ==
    (pure_out.op = "train" /\ pure_out.ret = "True") =>
        \A j \in 0..(Len(TrainRows) - TEMPLATE_LENGTH) :
            WindowActivity(TrainActivity, pure_out.best_start)
                >= WindowActivity(TrainActivity, j)

\* C37: a gesture file that train_model wrote holds one variant, or two
\* exactly when the cleaned recording has 3 * TEMPLATE_LENGTH rows or more;
\* each variant has TEMPLATE_LENGTH rows of features and the stored
\* template_length is TEMPLATE_LENGTH
C37_TemplateRecordWellFormed ==
    (pure_out.op = "train" /\ pure_out.ret = "True") =>
        LET f == pure_out.file
        IN  /\ f.state = "trained"
            /\ Len(f.templates) \in {1, 2}
            /\ Len(f.templates) = 2 <=> Len(TrainRows) >= 3 * TEMPLATE_LENGTH
            /\ \A v \in 1..Len(f.templates) :
                  /\ Len(f.templates[v]) = TEMPLATE_LENGTH
                  /\ \A i \in 1..TEMPLATE_LENGTH :
                        Len(f.templates[v][i]) = NUM_FEATURES
            /\ f.template_length = TEMPLATE_LENGTH
            /\ f.samples_used = Len(TrainRows)

\* C37 witness: a recording of 3 * TEMPLATE_LENGTH rows gave two variants
\* that differ
C37_Witness ==
    /\ pure_out.op = "train"
    /\ pure_out.ret = "True"
    /\ Len(TrainRows) = 3 * TEMPLATE_LENGTH
    /\ Len(pure_out.file.templates) = 2
    /\ pure_out.file.templates[1] # pure_out.file.templates[2]

\* C38: with the CSV missing or unreadable, or fewer than TEMPLATE_LENGTH
\* rows left by the cleaning, train_model returns and the gesture file is
\* what it was: absent, or the one trained before
C38_FailureLeavesFiles ==
    (/\ pure_out.op = "train"
     /\ \/ pure_in.csv.status # "ok"
        \/ Len(TrainRows) < TEMPLATE_LENGTH) =>
        /\ pure_out.ret = "None"
        /\ pure_out.file = pure_in.file

\* C38 witness: a recording of TEMPLATE_LENGTH rows, one of them corrupt,
\* was refused and the file trained before is still there
C38_Witness ==
    /\ pure_out.op = "train"
    /\ pure_in.csv.status = "ok"
    /\ Len(pure_in.csv.rows) = TEMPLATE_LENGTH
    /\ Len(TrainRows) = TEMPLATE_LENGTH - 1
    /\ pure_in.file = OldFile
    /\ pure_out.file = OldFile
    /\ pure_out.ret = "None"

=============================================================================
